---- MODULE Spec2Model ----
(***************************************************************************)
(* A model of the twiga index writer (twiga_core_index.py) and of the      *)
(* twiga searchers (twiga_core_search.py).                                  *)
(*                                                                         *)
(* A text is the sequence of words the pre-tokenizer yields for it; the    *)
(* normalizer and the pre-tokenizer are the `tokenizers` library and are   *)
(* not modelled further.  A digest is the pair <<digest_size, v>> where v  *)
(* is the last byte of the real BLAKE2b digest of the word: digests of     *)
(* different sizes are different strings.                                  *)
(***************************************************************************)
EXTENDS Integers, Sequences, FiniteSets, Bags, TLC

(***************************************************************************)
(* Bounds of the model.                                                    *)
(***************************************************************************)
MaxTextLen == 2          \* words per text handed to the writer
MaxBatches == 2          \* calls of twiga_index_writer
IndexBins == 2           \* INDEX_BINS, the N the index is created with
CpuCount == 2            \* cpu_count(): writer threads per batch
HasherBatchMaximum == 2  \* INDEXER_BATCH_MAXIMUM, words per hasher batch
MaxQueryLen == 2         \* words per search request
MaxDocLen == 3           \* words per text in the searchers' input
TextBins == 2            \* TEXT_BINS, the M the text database is created with
MaxTextRows == 2         \* rows per batch handed to twiga_text_writer
MaxTextWrites == 2       \* calls of twiga_text_writer

TextIds == {1, 2}
Words == {"ab", "fox", "the"}
stopword_set == {"the"}
SearchWords == {"ab", "fox", "dog"}
ResultsNumbers == {0, 1}
StoreTextIds == {1, 2, 3}

\* The hash_id of a LEFT JOIN row without a partner; hash ids start at 1.
NULL == -1

(***************************************************************************)
(* Sequences and bags.                                                     *)
(***************************************************************************)
Range(s) == {s[i] : i \in DOMAIN s}

SeqsUpTo(S, n) == UNION {[1..m -> S] : m \in 0..n}

Min(S) == CHOOSE x \in S : \A y \in S : x <= y

RECURSIVE SortedSeq(_)
SortedSeq(S) ==
    IF S = {} THEN <<>> ELSE <<Min(S)>> \o SortedSeq(S \ {Min(S)})

RECURSIVE Concat(_)
Concat(ss) == IF ss = <<>> THEN <<>> ELSE Head(ss) \o Concat(Tail(ss))

RECURSIVE SumSeq(_)
SumSeq(s) == IF s = <<>> THEN 0 ELSE Head(s) + SumSeq(Tail(s))

SeqToBag(s) == [r \in Range(s) |-> Cardinality({i \in DOMAIN s : s[i] = r})]

RECURSIVE PositionsTotal(_)
\* SUM(LEN(positions)) over the rows of a bag of postings.
PositionsTotal(B) ==
    IF DOMAIN B = {} THEN 0
    ELSE LET r == CHOOSE x \in DOMAIN B : TRUE
         IN  B[r] * Len(r.positions)
             + PositionsTotal([x \in DOMAIN B \ {r} |-> B[x]])

(***************************************************************************)
(* hashlib.blake2b(word.encode(), digest_size=n).hexdigest(), and          *)
(* int(hash, 16).                                                          *)
(***************************************************************************)
DigestByte ==
    [w \in {"ab", "fox", "dog", "the"}, n \in {16, 32} |->
        CASE w = "ab"  /\ n = 32 -> 85
          [] w = "ab"  /\ n = 16 -> 199
          [] w = "fox" /\ n = 32 -> 60
          [] w = "fox" /\ n = 16 -> 27
          [] w = "dog" /\ n = 32 -> 201
          [] w = "dog" /\ n = 16 -> 83
          [] w = "the" /\ n = 32 -> 70
          [] w = "the" /\ n = 16 -> 147]

blake2b(word, digest_size) == <<digest_size, DigestByte[word, digest_size]>>

HexToInt(hash) == hash[2]

(***************************************************************************)
(* twiga_index_writer: the stopword filter and the hasher batches.         *)
(***************************************************************************)
RECURSIVE FilterStopwords(_)
FilterStopwords(pre_tokenized_text) ==
    IF pre_tokenized_text = <<>> THEN <<>>
    ELSE IF Head(pre_tokenized_text) \notin stopword_set
         THEN <<Head(pre_tokenized_text)>> \o FilterStopwords(Tail(pre_tokenized_text))
         ELSE FilterStopwords(Tail(pre_tokenized_text))

\* The loop of lines 170-186 over the texts from index i on; batches is
\* hasher_batches, current is current_hasher_batch (<<text ids, word lists>>).
RECURSIVE HasherBatchLoop(_, _, _, _, _, _, _)
HasherBatchLoop(text_id_list, text_words_list, maximum, i, batches, current, count) ==
    IF i > Len(text_id_list)
    THEN Append(batches, current)
    ELSE LET words_number == Len(text_words_list[i])
         IN  IF count + words_number > maximum
             THEN HasherBatchLoop(text_id_list, text_words_list, maximum, i + 1,
                      Append(batches, current),
                      << <<text_id_list[i]>>, <<text_words_list[i]>> >>,
                      words_number)
             ELSE HasherBatchLoop(text_id_list, text_words_list, maximum, i + 1,
                      batches,
                      << Append(current[1], text_id_list[i]),
                         Append(current[2], text_words_list[i]) >>,
                      count + words_number)

\* All texts of the call in one hasher batch.
HasherBatchesUnsplit(text_id_list, text_words_list, maximum) ==
    << <<text_id_list, text_words_list>> >>

HasherBatches(text_id_list, text_words_list, maximum) ==
    HasherBatchLoop(text_id_list, text_words_list, maximum, 1,
                    <<>>, << <<>>, <<>> >>, 0)

(***************************************************************************)
(* twiga_index_hasher.                                                     *)
(***************************************************************************)
WordHashList(word_list) ==
    [i \in DOMAIN word_list |-> blake2b(word_list[i], 32)]

\* Positions counted from 1.
PositionsFromOne(text_word_hash_list, hashed_word) ==
    SortedSeq({j \in DOMAIN text_word_hash_list :
                  text_word_hash_list[j] = hashed_word})

\* positions[hashed_word]: the 0-based positions of the hash, ascending.
Positions(text_word_hash_list, hashed_word) ==
    SortedSeq({i - 1 : i \in {j \in DOMAIN text_word_hash_list :
                                  text_word_hash_list[j] = hashed_word}})

\* A bin number taken from the leading digits of the hash.
BinNumberOfPrefix(hash, index_bins) == ((HexToInt(hash) \div 16) % index_bins) + 1

BinNumber(hash, index_bins) == (HexToInt(hash) % index_bins) + 1

\* One record per element of text_word_hash_list (lines 343-357).
HashedWordRecords(text_id, word_list) ==
    LET text_word_hash_list == WordHashList(word_list)
    IN  [i \in DOMAIN text_word_hash_list |->
            [hash      |-> text_word_hash_list[i],
             text_id   |-> text_id,
             positions |-> Positions(text_word_hash_list, text_word_hash_list[i])]]

WordsCountRecord(text_id, word_list) ==
    [text_id |-> text_id, words_total |-> Len(word_list)]

\* The result of one hasher call: texts_total, words_total, hashes (a dict
\* bin number -> list of records) and word_counts.
twiga_index_hasher(text_id_list, text_words_list, index_bins) ==
    LET records == Concat([i \in DOMAIN text_id_list |->
                       HashedWordRecords(text_id_list[i], text_words_list[i])])
        bins == {BinNumber(records[i].hash, index_bins) : i \in DOMAIN records}
    IN  [texts_total |-> Len(text_id_list),
         words_total |-> Len(records),
         hashes      |-> [b \in bins |->
                             SelectSeq(records,
                                 LAMBDA r : BinNumber(r.hash, index_bins) = b)],
         word_counts |-> [i \in DOMAIN text_id_list |->
                             WordsCountRecord(text_id_list[i], text_words_list[i])]]

\* The hashes of the first hasher call alone.
MergedHashesOfFirst(results_data) == results_data[1].hashes

\* Lines 221-238: the results of the hasher calls combined.  all_keys is a
\* set of small integers, which CPython iterates in ascending order.
MergedHashes(results_data) ==
    LET all_keys == UNION {DOMAIN results_data[i].hashes : i \in DOMAIN results_data}
    IN  [key \in all_keys |->
            Concat([i \in DOMAIN results_data |->
                IF key \in DOMAIN results_data[i].hashes
                THEN results_data[i].hashes[key] ELSE <<>>])]

\* The word counts of the first hasher call alone.
MergedWordCountsOfFirst(results_data) == results_data[1].word_counts

MergedWordCounts(results_data) ==
    Concat([i \in DOMAIN results_data |-> results_data[i].word_counts])

(***************************************************************************)
(* twiga_dict_splitter: np.array_split of the keys into parts_number       *)
(* sections, the first len % parts_number of them one element longer.      *)
(***************************************************************************)
\* Every part holds all keys.
ArraySplitWhole(key_items, parts_number) ==
    [p \in 1..parts_number |-> key_items]

ArraySplit(key_items, parts_number) ==
    LET n == Len(key_items)
        q == n \div parts_number
        r == n % parts_number
        start(p) == (p - 1) * q + (IF p - 1 < r THEN p - 1 ELSE r)
        size(p)  == q + (IF p <= r THEN 1 ELSE 0)
    IN  [p \in 1..parts_number |-> SubSeq(key_items, start(p) + 1, start(p) + size(p))]

twiga_dict_splitter(input_dict, parts_number) ==
    ArraySplit(SortedSeq(DOMAIN input_dict), parts_number)

(***************************************************************************)
(* twiga_request_hasher and the bin routing of twiga_index_reader.         *)
(***************************************************************************)
twiga_request_hasher(pre_tokenized_search_request) ==
    [i \in DOMAIN pre_tokenized_search_request |->
        blake2b(pre_tokenized_search_request[i], 16)]

ReaderBinNumber(hash_item, index_bins) == (HexToInt(hash_item) % index_bins) + 1

\* bin_dict of lines 61-70: bin number -> the hashes of the request in it.
ReaderBinDict(request_hash_list, index_bins) ==
    LET hash_set == Range(request_hash_list)
    IN  [bin_number \in {ReaderBinNumber(h, index_bins) : h \in hash_set} |->
            {h \in hash_set : ReaderBinNumber(h, index_bins) = bin_number}]

(***************************************************************************)
(* The state.                                                              *)
(***************************************************************************)
VARIABLES
    module_index_bins,  \* the bindings of the name index_bins of line 200:
                        \* {} while the name is unbound, else {its value}
    texts,              \* the text store: text_id -> pre-tokenized text
    word_counts,        \* index.word_counts, committed rows
    hash_id_sequence,   \* index.hash_id_sequence: the value NEXTVAL returns next
    hash_dict,          \* bin -> committed rows of index.bin_k_hash_dict
    hash_index,         \* bin -> committed rows (a bag) of index.bin_k_hash_index
    writer_pc,          \* "idle" | "writing"
    text_id_list,       \* the text ids of the current (or last) writer call
    hashes,             \* the merged hashes dict of the current writer call
    task,               \* thread -> state of its twiga_index_table_writer call
    writer_result,      \* what the last writer call returned or raised
    batches_done,       \* writer calls made
    issued,             \* values NEXTVAL has returned, as a bag
    outcomes,           \* how each writer call so far ended, in call order
    catalog,            \* the tables and sequences of the index database
    creator_result      \* what a further twiga_index_creator call did

writer_vars == <<module_index_bins, texts, word_counts, hash_id_sequence,
                 hash_dict, hash_index, writer_pc, text_id_list, hashes, task,
                 writer_result, batches_done, issued, outcomes, catalog,
                 creator_result>>

\* The value the name index_bins has where line 200 reads it.
global_index_bins == CHOOSE value \in module_index_bins : TRUE

\* How a writer call ended.
Raised(exception) == [status |-> exception, value |-> <<>>]

Returned(value) == [status |-> "returned", value |-> value]

VARIABLES
    reader_request,     \* the request_hash_list of the twiga_index_reader call
    reader_result       \* what the call returned or raised

reader_vars == <<reader_request, reader_result>>

VARIABLES
    search_pc,          \* "idle" | "ready" | the searcher that has run
    search_texts,       \* text_id -> the stopword-free words of a searched text
    search_request,     \* the words of the search request
    hash_id_list,       \* what twiga_index_reader returns with hash_table
    hash_table,         \* the postings table handed to a searcher
    results_number,     \* the searcher's limit, 0 for no limit
    result_table,       \* what the searcher returned
    text_reader_result  \* what twiga_text_reader did with result_table

search_vars == <<search_pc, search_texts, search_request, hash_id_list,
                 hash_table, results_number, result_table, text_reader_result>>

VARIABLES
    texts_bin,          \* bin -> committed rows of text.texts_bin_k
    text_tx,            \* bin -> rows the open transaction has inserted
    text_tx_open,       \* the connection has an open transaction
    text_pc,            \* "idle" | "inserting"
    batch_table,        \* the batch of the current (or last) text writer call
    bin_indices,        \* the items of bin_indices still to insert
    text_writer_result, \* what the last text writer call returned or raised
    text_writes         \* text writer calls that have ended

text_vars == <<texts_bin, text_tx, text_tx_open, text_pc, batch_table,
               bin_indices, text_writer_result, text_writes>>

VARIABLES
    hasher_arguments,      \* <<text_id_list, text_words_list>> of a writer call
    hasher_batch_maximum,  \* the writer's argument of that name
    hasher_batches         \* the hasher batches built for the call

hasher_vars == <<hasher_arguments, hasher_batch_maximum, hasher_batches>>

VARIABLES
    bin_tables,         \* bin -> index.bin_k: whether the table exists and
                        \* its committed rows in storage order
    input_tables,       \* bin_tables as the optimizer found them
    idx,                \* the loop variable of main
    optimizer_pc,       \* the statement of reorder_bin_table main is at
    temp_reorder,       \* the cursor's temporary table: exists, rows
    cursor_table,       \* whether the cursor has an open transaction, and
                        \* the rows of index.bin_k as that transaction has them
    tables_processed    \* stats["tables_processed"]

optimizer_vars == <<bin_tables, input_tables, idx, optimizer_pc, temp_reorder,
                    cursor_table, tables_processed>>

non_writer_vars == <<search_vars, reader_vars, text_vars, hasher_vars,
                     optimizer_vars>>

Bins == 1..IndexBins
Threads == 1..CpuCount

\* The name of a table or sequence of the attached database: the text
\* before the bin number, the bin number (0 where the name has none) and the
\* text after it.
TableName(prefix, bin_number, suffix) == <<prefix, bin_number, suffix>>

WordCountsTable == TableName("word_counts", 0, "")

HashIdSequence == TableName("hash_id_sequence", 0, "")

HashDictTable(bin_number) == TableName("bin_", bin_number, "_hash_dict")

HashIndexTable(bin_number) == TableName("bin_", bin_number, "_hash_index")

\* What twiga_index_creator creates for index_bins bins.
CreatedCatalog ==
    {WordCountsTable, HashIdSequence}
        \cup {HashDictTable(bin_number) : bin_number \in Bins}
        \cup {HashIndexTable(bin_number) : bin_number \in Bins}

IdleTask == [bins |-> <<>>, pc |-> "done", unknown |-> {}, new_hashes |-> {},
             tx_dict |-> {}, tx_index |-> EmptyBag]

\* twiga_index_creator: empty tables and a sequence that starts at 1.
WriterInit ==
    /\ module_index_bins \in {{}, {IndexBins}}
    /\ texts \in [TextIds -> SeqsUpTo(Words, MaxTextLen)]
    /\ word_counts = {}
    /\ hash_id_sequence = 1
    /\ hash_dict = [k \in Bins |-> {}]
    /\ hash_index = [k \in Bins |-> EmptyBag]
    /\ writer_pc = "idle"
    /\ text_id_list = <<>>
    /\ hashes = <<>>
    /\ task = [t \in Threads |-> IdleTask]
    /\ writer_result = Raised("none")
    /\ batches_done = 0
    /\ issued = EmptyBag
    /\ outcomes = <<>>
    /\ catalog = CreatedCatalog
    /\ creator_result = Raised("none")

\* The text id lists a caller may pass: distinct ids of the text store.
TextIdLists ==
    {ids \in SeqsUpTo(TextIds, Cardinality(TextIds)) :
        /\ ids # <<>>
        /\ \A i, j \in DOMAIN ids : i # j => ids[i] # ids[j]}

\* The word lists without the stopword filter.
TextWordsListUnfiltered(ids) == [i \in DOMAIN ids |-> texts[ids[i]]]

\* Lines 152-159.
TextWordsList(ids) == [i \in DOMAIN ids |-> FilterStopwords(texts[ids[i]])]

\* Lines 196-219: one hasher call per hasher batch, with index_bins.
ResultsData(ids, index_bins) ==
    LET batches == HasherBatches(ids, TextWordsList(ids), HasherBatchMaximum)
    IN  [b \in DOMAIN batches |->
            twiga_index_hasher(batches[b][1], batches[b][2], index_bins)]

(***************************************************************************)
(* twiga_index_writer.                                                     *)
(***************************************************************************)
IndexedTextIds == {r.text_id : r \in word_counts}

StartTasks(merged) ==
    LET hashes_batch_list == twiga_dict_splitter(merged, CpuCount)
    IN  [t \in Threads |->
            [IdleTask EXCEPT !.bins = hashes_batch_list[t],
                             !.pc = IF hashes_batch_list[t] = <<>>
                                    THEN "done" ELSE "begin"]]

\* Line 200 reads the name index_bins, which is no parameter and no local of
\* twiga_index_writer: with the name unbound the call raises NameError
\* before it opens the database.
WriterNameError(ids) ==
    /\ UNCHANGED non_writer_vars
    /\ writer_pc = "idle"
    /\ batches_done < MaxBatches
    /\ module_index_bins = {}
    /\ text_id_list' = ids
    /\ writer_result' = Raised("NameError")
    /\ outcomes' = Append(outcomes, "NameError")
    /\ batches_done' = batches_done + 1
    /\ UNCHANGED <<catalog, creator_result,
                   module_index_bins, texts, word_counts, hash_id_sequence,
                   hash_dict, hash_index, writer_pc, hashes, task, issued>>

\* word_counts.text_id is a PRIMARY KEY: the insert of lines 251-257 fails
\* for a text that is indexed already and nothing of the batch is written.
WriterConstraintError(ids) ==
    /\ UNCHANGED non_writer_vars
    /\ writer_pc = "idle"
    /\ batches_done < MaxBatches
    /\ module_index_bins # {}
    /\ WordCountsTable \in catalog
    /\ Range(ids) \cap IndexedTextIds # {}
    /\ text_id_list' = ids
    /\ writer_result' = Raised("ConstraintException")
    /\ outcomes' = Append(outcomes, "ConstraintException")
    /\ batches_done' = batches_done + 1
    /\ UNCHANGED <<catalog, creator_result,
                   module_index_bins, texts, word_counts, hash_id_sequence,
                   hash_dict, hash_index, writer_pc, hashes, task, issued>>

\* Lines 123-282: tokenize, hash, commit the word counts, start the threads.
WriterStart(ids) ==
    /\ UNCHANGED non_writer_vars
    /\ writer_pc = "idle"
    /\ batches_done < MaxBatches
    /\ module_index_bins # {}
    /\ WordCountsTable \in catalog
    /\ Range(ids) \cap IndexedTextIds = {}
    /\ LET results_data == ResultsData(ids, global_index_bins)
       IN  /\ word_counts' = word_counts \cup Range(MergedWordCounts(results_data))
           /\ hashes' = MergedHashes(results_data)
           /\ task' = StartTasks(MergedHashes(results_data))
    /\ text_id_list' = ids
    /\ writer_pc' = "writing"
    /\ writer_result' = Raised("none")
    /\ UNCHANGED <<catalog, creator_result, outcomes,
                   module_index_bins, texts, hash_id_sequence, hash_dict,
                   hash_index, batches_done, issued>>

WriterReturn(ids, index_bins) ==
    LET results_data == ResultsData(ids, index_bins)
    IN  << SumSeq([i \in DOMAIN results_data |-> results_data[i].texts_total]),
           SumSeq([i \in DOMAIN results_data |-> results_data[i].words_total]) >>

\* Lines 284-293: results.get() returns when every task has ended and raises
\* the exception of a failed one; otherwise CHECKPOINT, close and return.
WriterFinish ==
    /\ UNCHANGED non_writer_vars
    /\ writer_pc = "writing"
    /\ \A t \in Threads : task[t].pc \in {"done", "failed"}
    /\ writer_result' = IF \E t \in Threads : task[t].pc = "failed"
                        THEN Raised("Exception")
                        ELSE Returned(WriterReturn(text_id_list, global_index_bins))
    /\ outcomes' = Append(outcomes, IF \E t \in Threads : task[t].pc = "failed"
                                    THEN "Exception" ELSE "returned")
    /\ writer_pc' = "idle"
    /\ batches_done' = batches_done + 1
    /\ UNCHANGED <<catalog, creator_result,
                   module_index_bins, texts, word_counts, hash_id_sequence,
                   hash_dict, hash_index, text_id_list, hashes, task, issued>>

(***************************************************************************)
(* twiga_index_table_writer: one transaction per bin of the thread's dict. *)
(***************************************************************************)
\* Lines 377-396: GROUP BY hash, then EXCEPT the hashes of the dictionary.
UniqueBinHashes(bin_data) == {bin_data[i].hash : i \in DOMAIN bin_data}

UnknownBinHashes(bin_data, dict) ==
    UniqueBinHashes(bin_data) \ {hd.hash : hd \in dict}

\* NEXTVAL('index.hash_id_sequence'): the value returned, and the sequence
\* after the call.  The sequence is not part of any transaction.
NextVal(sequence) == sequence

SequenceAfterNextVal(sequence) == sequence + 1

\* hash is the PRIMARY KEY of a dictionary table and hash_id is UNIQUE in it.
DictInsertAllowed(dict, rows) ==
    \A r \in rows :
        /\ \A d \in dict : d.hash # r.hash /\ d.hash_id # r.hash_id
        /\ \A q \in rows : q # r => (q.hash # r.hash /\ q.hash_id # r.hash_id)

\* Lines 415-427: bin_hashes_table LEFT JOIN the dictionary ON hash.
JoinedHashId(hash, dict) ==
    IF \E ihd \in dict : ihd.hash = hash
    THEN (CHOOSE ihd \in dict : ihd.hash = hash).hash_id
    ELSE NULL

\* The posting of the first record of the bin alone.
IndexRowsOfFirstRecord(bin_data, dict) ==
    SeqToBag(<<[hash_id   |-> JoinedHashId(bin_data[1].hash, dict),
                text_id   |-> bin_data[1].text_id,
                positions |-> bin_data[1].positions]>>)

IndexRows(bin_data, dict) ==
    SeqToBag([i \in DOMAIN bin_data |->
                 [hash_id   |-> JoinedHashId(bin_data[i].hash, dict),
                  text_id   |-> bin_data[i].text_id,
                  positions |-> bin_data[i].positions]])

CurrentBin(t) == Head(task[t].bins)

\* The dictionary as a reader outside the transaction sees it.
CommittedDictOnly(t) == hash_dict[CurrentBin(t)]

\* What the transaction of thread t reads as index.bin_k_hash_dict.
VisibleDict(t) == hash_dict[CurrentBin(t)] \cup task[t].tx_dict

\* A hash id numbered within the bin's dictionary, not by the sequence.
NewHashIdPerBin(t) ==
    Cardinality(VisibleDict(t)) + Cardinality(task[t].new_hashes) + 1

\* A hash id taken as one more than the largest committed hash id.
NewHashIdFromMax(t) ==
    LET ids == UNION {{hd.hash_id : hd \in hash_dict[k]} : k \in Bins}
        largest == IF ids = {} THEN 0
                   ELSE CHOOSE x \in ids : \A y \in ids : y <= x
    IN  largest + Cardinality(task[t].new_hashes) + 1

\* The hash_id of one row of new_hashes_table (lines 398-405).
NewHashId(t) == NextVal(hash_id_sequence)

\* BEGIN TRANSACTION and the two SELECTs that find the unknown hashes.
TaskBegin(t) ==
    /\ UNCHANGED non_writer_vars
    /\ writer_pc = "writing"
    /\ task[t].pc = "begin"
    /\ LET unknown == UnknownBinHashes(hashes[CurrentBin(t)], VisibleDict(t))
       IN  task' = [task EXCEPT ![t].unknown = unknown,
                                ![t].new_hashes = {},
                                ![t].pc = IF unknown = {} THEN "insert_dict"
                                          ELSE "nextval"]
    /\ UNCHANGED <<catalog, creator_result, outcomes,
                   module_index_bins, texts, word_counts, hash_id_sequence,
                   hash_dict, hash_index, writer_pc, text_id_list, hashes,
                   writer_result, batches_done, issued>>

\* Lines 398-405: one NEXTVAL per unknown hash, in no particular order; the
\* calls of concurrent threads interleave.
TaskNextVal(t) ==
    /\ UNCHANGED non_writer_vars
    /\ writer_pc = "writing"
    /\ task[t].pc = "nextval"
    /\ \E hash \in task[t].unknown :
          task' = [task EXCEPT
              ![t].unknown = @ \ {hash},
              ![t].new_hashes = @ \cup {[hash |-> hash,
                                         hash_id |-> NewHashId(t)]},
              ![t].pc = IF task[t].unknown = {hash} THEN "insert_dict"
                        ELSE "nextval"]
    /\ issued' = issued (+) SetToBag({NextVal(hash_id_sequence)})
    /\ hash_id_sequence' = SequenceAfterNextVal(hash_id_sequence)
    /\ UNCHANGED <<catalog, creator_result, outcomes,
                   module_index_bins, texts, word_counts, hash_dict,
                   hash_index, writer_pc, text_id_list, hashes, writer_result,
                   batches_done>>

\* Lines 407-413.
TaskInsertDict(t) ==
    /\ UNCHANGED non_writer_vars
    /\ writer_pc = "writing"
    /\ task[t].pc = "insert_dict"
    /\ DictInsertAllowed(VisibleDict(t), task[t].new_hashes)
    /\ task' = [task EXCEPT ![t].tx_dict = task[t].new_hashes,
                            ![t].pc = "insert_index"]
    /\ UNCHANGED <<catalog, creator_result, outcomes,
                   module_index_bins, texts, word_counts, hash_id_sequence,
                   hash_dict, hash_index, writer_pc, text_id_list, hashes,
                   writer_result, batches_done, issued>>

\* Lines 415-427.
TaskInsertIndex(t) ==
    /\ UNCHANGED non_writer_vars
    /\ writer_pc = "writing"
    /\ task[t].pc = "insert_index"
    /\ task' = [task EXCEPT
           ![t].tx_index = IndexRows(hashes[CurrentBin(t)], VisibleDict(t)),
           ![t].pc = "commit"]
    /\ UNCHANGED <<catalog, creator_result, outcomes,
                   module_index_bins, texts, word_counts, hash_id_sequence,
                   hash_dict, hash_index, writer_pc, text_id_list, hashes,
                   writer_result, batches_done, issued>>

\* Line 429, then the next bin of the thread's dict, or lines 431-433.
TaskCommit(t) ==
    /\ UNCHANGED non_writer_vars
    /\ writer_pc = "writing"
    /\ task[t].pc = "commit"
    /\ hash_dict' = [hash_dict EXCEPT ![CurrentBin(t)] = @ \cup task[t].tx_dict]
    /\ hash_index' = [hash_index EXCEPT ![CurrentBin(t)] = @ (+) task[t].tx_index]
    /\ task' = [task EXCEPT ![t] =
           [IdleTask EXCEPT !.bins = Tail(task[t].bins),
                            !.pc = IF Tail(task[t].bins) = <<>> THEN "done"
                                   ELSE "begin"]]
    /\ UNCHANGED <<catalog, creator_result, outcomes,
                   module_index_bins, texts, word_counts, hash_id_sequence,
                   writer_pc, text_id_list, hashes, writer_result,
                   batches_done, issued>>

\* A failed transaction whose dictionary rows are committed all the same.
DictAfterPartialCommit(committed, uncommitted) == committed \cup uncommitted

\* The committed dictionary rows of a bin after an INSERT of its
\* transaction has failed: line 429 is not reached.
DictAfterFailedTransaction(committed, uncommitted) == committed

\* An INSERT of the transaction fails (a constraint, the disk): the thread
\* ends with the exception and its open transaction is never committed.
TaskWriteFails(t) ==
    /\ UNCHANGED non_writer_vars
    /\ writer_pc = "writing"
    /\ task[t].pc \in {"insert_dict", "insert_index"}
    /\ task' = [task EXCEPT ![t].pc = "failed",
                            ![t].tx_dict = {},
                            ![t].tx_index = EmptyBag]
    /\ hash_dict' = [hash_dict EXCEPT ![CurrentBin(t)] =
                         DictAfterFailedTransaction(@, task[t].tx_dict)]
    /\ UNCHANGED <<catalog, creator_result, outcomes,
                   module_index_bins, texts, word_counts, hash_id_sequence,
                   hash_index, writer_pc, text_id_list, hashes,
                   writer_result, batches_done, issued>>

WriterNext ==
    \/ \E ids \in TextIdLists : WriterNameError(ids)
    \/ \E ids \in TextIdLists : WriterConstraintError(ids)
    \/ \E ids \in TextIdLists : WriterStart(ids)
    \/ WriterFinish
    \/ \E t \in Threads : TaskBegin(t)
    \/ \E t \in Threads : TaskNextVal(t)
    \/ \E t \in Threads : TaskInsertDict(t)
    \/ \E t \in Threads : TaskInsertIndex(t)
    \/ \E t \in Threads : TaskCommit(t)
    \/ \E t \in Threads : TaskWriteFails(t)

(***************************************************************************)
(* twiga_index_creator, and twiga_index_writer on a database without the   *)
(* index tables.                                                           *)
(***************************************************************************)
\* CREATE TABLE and CREATE SEQUENCE without IF NOT EXISTS: the first
\* statement (lines 75-82) fails where index.word_counts exists; otherwise
\* the tables are created empty and the sequence starts at 1.
twiga_index_creator ==
    /\ UNCHANGED non_writer_vars
    /\ writer_pc = "idle"
    /\ creator_result.status # "CatalogException"
    /\ IF WordCountsTable \in catalog
       THEN /\ creator_result' = Raised("CatalogException")
            /\ UNCHANGED <<catalog, word_counts, hash_id_sequence, hash_dict,
                           hash_index>>
       ELSE /\ creator_result' = Returned(<<TRUE>>)
            /\ catalog' = catalog \cup CreatedCatalog
            /\ word_counts' = {}
            /\ hash_id_sequence' = 1
            /\ hash_dict' = [k \in Bins |-> {}]
            /\ hash_index' = [k \in Bins |-> EmptyBag]
    /\ UNCHANGED <<module_index_bins, texts, writer_pc, text_id_list, hashes,
                   task, writer_result, batches_done, issued, outcomes>>

\* Lines 241-257 on a database file twiga_index_creator has not run on:
\* ATTACH creates the file and the INSERT INTO index.word_counts fails.
WriterCatalogError(ids) ==
    /\ UNCHANGED non_writer_vars
    /\ writer_pc = "idle"
    /\ batches_done < MaxBatches
    /\ module_index_bins # {}
    /\ WordCountsTable \notin catalog
    /\ text_id_list' = ids
    /\ writer_result' = Raised("CatalogException")
    /\ outcomes' = Append(outcomes, "CatalogException")
    /\ batches_done' = batches_done + 1
    /\ UNCHANGED <<catalog, creator_result,
                   module_index_bins, texts, word_counts, hash_id_sequence,
                   hash_dict, hash_index, writer_pc, hashes, task, issued>>

(***************************************************************************)
(* twiga_index_reader of twiga_core_search.py on an index database the     *)
(* creator has made.                                                       *)
(***************************************************************************)
\* The table the SELECT of lines 80-87 reads for a bin.
ReaderTable(bin_number) == TableName("bin_", bin_number, "")

\* The tables of the query for a request.
ReaderTables(request_hash_list, index_bins) ==
    {ReaderTable(bin_number) :
        bin_number \in DOMAIN ReaderBinDict(request_hash_list, index_bins)}

NotCalled == [status |-> "none", hash_id_list |-> <<>>, hash_table |-> EmptyBag]

\* return None, None
NoneNone == [status |-> "None", hash_id_list |-> <<>>, hash_table |-> EmptyBag]

ReaderRaised(exception) ==
    [status |-> exception, hash_id_list |-> <<>>, hash_table |-> EmptyBag]

\* The requests the reader is called with: hashes of indexed words, of a
\* word no text holds, and hashes as twiga_request_hasher makes them.
ReaderRequests ==
    {<<>>, <<blake2b("ab", 32)>>, <<blake2b("dog", 32)>>,
     <<blake2b("ab", 32), blake2b("dog", 32)>>,
     twiga_request_hasher(<<"ab">>)}

ReaderIdle ==
    /\ reader_request = <<>>
    /\ reader_result = NotCalled

\* Lines 51-52.
IndexReadEmpty ==
    /\ UNCHANGED <<writer_vars, search_vars, text_vars, hasher_vars,
                 optimizer_vars>>
    /\ writer_pc = "idle"
    /\ WordCountsTable \in catalog
    /\ reader_result = NotCalled
    /\ reader_request' = <<>>
    /\ reader_result' = NoneNone

\* Lines 54-92: the query names a table bin_k for every bin of the request.
\* No statement of twiga_index_creator or twiga_index_writer creates a
\* table of that name, and the query fails in the catalog lookup.
IndexReadFails(request_hash_list) ==
    /\ UNCHANGED <<writer_vars, search_vars, text_vars, hasher_vars,
                 optimizer_vars>>
    /\ writer_pc = "idle"
    /\ WordCountsTable \in catalog
    /\ reader_result = NotCalled
    /\ Len(request_hash_list) # 0
    /\ \E table \in ReaderTables(request_hash_list, IndexBins) :
          table \notin catalog
    /\ reader_request' = request_hash_list
    /\ reader_result' = ReaderRaised("CatalogException")

(***************************************************************************)
(* The searchers of twiga_core_search.py and of twiga_core.py.  A searcher *)
(* is a function of the postings table, the hash id list and word_counts;  *)
(* its inputs are the postings of a set of texts for the hashes of a       *)
(* request.                                                                *)
(***************************************************************************)
\* mapping_dict of line 59 enumerates a set: any numbering 0..n-1 of it.
MappingDicts(hash_set) ==
    {m \in [hash_set -> 0..(Cardinality(hash_set) - 1)] :
        \A g, h \in hash_set : g # h => m[g] # m[h]}

\* Line 95.
HashIdList(request_hash_list, mapping_dict) ==
    [i \in DOMAIN request_hash_list |-> mapping_dict[request_hash_list[i]]]

\* The rows (hash, text_id, positions) an index holds for the texts: the
\* hasher emits one record for every word occurrence (twiga_core_index.py,
\* lines 343-357), so a row is stored as often as its word occurs.
StoredPostings(word_lists) ==
    LET hash_list(d) == twiga_request_hasher(word_lists[d])
        rows == {[hash      |-> x[2],
                  text_id   |-> x[1],
                  positions |-> Positions(hash_list(x[1]), x[2])] :
                    x \in {y \in (DOMAIN word_lists) \X
                                 {blake2b(w, 16) : w \in SearchWords} :
                              y[2] \in Range(hash_list(y[1]))}}
    IN  [r \in rows |-> Len(r.positions)]

\* The copies of a row in the result of query_number SELECTs: UNION keeps
\* one copy of every row, a single SELECT keeps them all (lines 89-90).
CopiesAfterUnion(copies, query_number) == IF query_number > 1 THEN 1 ELSE copies

\* The query of lines 76-92 over the stored postings: the rows of the
\* request's hashes, hash_id being the number mapping_dict gives the hash.
PostingsTable(word_lists, request_hash_list, mapping_dict) ==
    LET hash_set == Range(request_hash_list)
        stored   == StoredPostings(word_lists)
        selected == {x \in DOMAIN stored : x.hash \in hash_set}
        source(r) == CHOOSE x \in selected :
                        /\ mapping_dict[x.hash] = r.hash_id
                        /\ x.text_id = r.text_id
    IN  [r \in {[hash_id   |-> mapping_dict[x.hash],
                 text_id   |-> x.text_id,
                 positions |-> x.positions] : x \in selected} |->
            CopiesAfterUnion(stored[source(r)], Cardinality(hash_set))]

\* The word_counts rows of the searched texts.
SearchWordCounts ==
    {[text_id |-> d, words_total |-> Len(search_texts[d])] :
        d \in DOMAIN search_texts}

\* str(n) as a sequence of decimal digits.
RECURSIVE Str(_)
Str(n) == IF n < 10 THEN <<n>> ELSE Str(n \div 10) \o <<n % 10>>

\* ''.join(map(str, hash_id_list)), line 220.
JoinIds(ids) == Concat([i \in DOMAIN ids |-> Str(ids[i])])

\* ROUND(matching_words / words_total, 5), in units of 0.00001.
RoundedFrequency(matching_words, words_total) ==
    (2 * 100000 * matching_words + words_total) \div (2 * words_total)

\* FIRST(wc.words_total) of the LEFT JOIN with word_counts.
WordsTotal(wc_table, d) ==
    IF \E wc \in wc_table : wc.text_id = d
    THEN (CHOOSE wc \in wc_table : wc.text_id = d).words_total
    ELSE NULL

\* A row of a searcher's SELECT list; the record's fields are its columns.
ResultRow(wc_table, d, matching_words) ==
    [text_id        |-> d,
     matching_words |-> matching_words,
     words_total    |-> WordsTotal(wc_table, d),
     matching_words_frequency |->
         IF WordsTotal(wc_table, d) = NULL THEN NULL
         ELSE RoundedFrequency(matching_words, WordsTotal(wc_table, d))]

\* The rows of text d in a table that is a bag of rows.
RowsOfText(B, d) == [r \in {x \in DOMAIN B : x.text_id = d} |-> B[r]]

\* matching_words as SUM(LEN(positions)) over the rows of a text.
SingleWordRowsSummed(ht, wc_table) ==
    {{ResultRow(wc_table, d, PositionsTotal(RowsOfText(ht, d))) :
         d \in {r.text_id : r \in DOMAIN ht}}}

\* GROUP BY text_id with LEN(FIRST(positions)): FIRST takes one row of the
\* group, whichever the engine meets first (twiga_core_search.py, lines
\* 115-127; twiga_core.py, lines 341-353).
SingleWordRowSets(ht, wc_table) ==
    LET text_ids == {r.text_id : r \in DOMAIN ht}
    IN  {{ResultRow(wc_table, d, Len(first[d].positions)) : d \in text_ids} :
            first \in {f \in [text_ids -> DOMAIN ht] :
                          \A d \in text_ids : f[d].text_id = d}}

\* Step 1: the texts whose rows carry every distinct hash id of the request.
TextsWithAllHashes(ht, ids) ==
    {d \in {r.text_id : r \in DOMAIN ht} :
        Cardinality({r.hash_id : r \in {x \in DOMAIN ht : x.text_id = d}})
            = Cardinality(Range(ids))}

\* twiga_any_position_searcher without ORDER BY and LIMIT: of every text of
\* step 1, SUM(LENGTH(positions)) over its rows, copies included.
AnyPositionRows(ht, ids, wc_table) ==
    {ResultRow(wc_table, d, PositionsTotal(RowsOfText(ht, d))) :
        d \in TextsWithAllHashes(ht, ids)}

\* Step 2: UNNEST(positions), the rows <<hash_id, position, copy>> of text
\* d, copy numbering the copies of one row of the table.
PositionRows(ht, d) ==
    UNION {{<<r.hash_id, r.positions[i], c>> :
               <<i, c>> \in (DOMAIN r.positions) \X (1..ht[r])} :
              r \in {x \in DOMAIN ht : x.text_id = d}}

\* Step 3: ROW_NUMBER() OVER (ORDER BY position) - position.  Rows of one
\* position are copies of one row in every table the reader returns, so
\* their order among themselves does not show.
SequenceId(rows, row) ==
    Cardinality({x \in rows : \/ x[2] < row[2]
                              \/ (x[2] = row[2] /\ x[3] <= row[3])}) - row[2]

\* Step 4: the groups of one sequence_id with COUNT(hash_id) = L and, of
\* each, STRING_AGG(hash_id, '' ORDER BY position).
Sequences(rows, L) ==
    LET sequence_ids == {SequenceId(rows, row) : row \in rows}
        group(sid) == {row \in rows : SequenceId(rows, row) = sid}
        hash_id_at(g, position) == (CHOOSE row \in g : row[2] = position)[1]
        string(g) == LET ordered == SortedSeq({row[2] : row \in g})
                     IN  JoinIds([i \in DOMAIN ordered |->
                                     hash_id_at(g, ordered[i])])
    IN  {<<sid, string(group(sid))>> :
            sid \in {x \in sequence_ids : Cardinality(group(x)) = L}}

\* Step 5, without ORDER BY and LIMIT: one row per text with a sequence that
\* equals the request's string.
ExactPhraseRows(ht, ids, wc_table) ==
    LET matching(d) == {q \in Sequences(PositionRows(ht, d), Len(ids)) :
                           q[2] = JoinIds(ids)}
    IN  {ResultRow(wc_table, d, Cardinality(matching(d)) * Len(ids)) :
            d \in {x \in TextsWithAllHashes(ht, ids) : matching(x) # {}}}

(***************************************************************************)
(* twiga_multiple_words_searcher of twiga_core.py.  A string is a sequence *)
(* of characters, a decimal digit being its value and '#' HashSign.        *)
(***************************************************************************)
HashSign == 10

\* '#'.join(map(str, hash_id_list)), line 372.
JoinWithHashSign(ids) ==
    Concat([i \in DOMAIN ids |->
               IF i = 1 THEN Str(ids[i]) ELSE <<HashSign>> \o Str(ids[i])])

IsPrefix(p, s) == Len(p) <= Len(s) /\ SubSeq(s, 1, Len(p)) = p

IsSuffix(p, s) ==
    Len(p) <= Len(s) /\ SubSeq(s, Len(s) - Len(p) + 1, Len(s)) = p

\* STRING_SPLIT(string, separator): the parts, from left to right; current
\* is the part that is being read.
RECURSIVE StringSplit(_, _, _)
StringSplit(string, separator, current) ==
    IF string = <<>> THEN <<current>>
    ELSE IF IsPrefix(separator, string)
         THEN <<current>> \o StringSplit(
                  SubSeq(string, Len(separator) + 1, Len(string)), separator, <<>>)
         ELSE StringSplit(Tail(string), separator, Append(current, Head(string)))

\* positions_by_text, distances, borders and texts (lines 394-437): the
\* distinct rows <<hash_id, position>> of text d in the order of their
\* positions, every hash id followed by '##' where the next position is
\* more than 1 away, all joined with '#'.
BordersText(ht, d) ==
    LET rows == {<<row[1], row[2]>> : row \in PositionRows(ht, d)}
        ordered == SortedSeq({row[2] : row \in rows})
        hash_id_at(position) == (CHOOSE row \in rows : row[2] = position)[1]
        hash_id_string(i) ==
            IF i < Len(ordered) /\ ordered[i + 1] - ordered[i] > 1
            THEN Str(hash_id_at(ordered[i])) \o <<HashSign, HashSign>>
            ELSE Str(hash_id_at(ordered[i]))
    IN  Concat([i \in DOMAIN ordered |->
                   IF i = 1 THEN hash_id_string(i)
                   ELSE <<HashSign>> \o hash_id_string(i)])

\* Lines 439-461, without ORDER BY and LIMIT: of every text the sequences
\* that equal the request's string, end with it or start with it.
MultipleWordsRows(ht, ids, wc_table) ==
    LET request_sequence_string == JoinWithHashSign(ids)
        sequences(d) == StringSplit(BordersText(ht, d),
                                    <<HashSign, HashSign, HashSign>>, <<>>)
        matching(d) == {i \in DOMAIN sequences(d) :
                           \/ sequences(d)[i] = request_sequence_string
                           \/ IsSuffix(request_sequence_string, sequences(d)[i])
                           \/ IsPrefix(request_sequence_string, sequences(d)[i])}
    IN  {ResultRow(wc_table, d, Cardinality(matching(d)) * Len(ids)) :
            d \in {x \in TextsWithAllHashes(ht, ids) : matching(x) # {}}}

(***************************************************************************)
(* ORDER BY matching_words_frequency DESC and LIMIT.                       *)
(***************************************************************************)
\* The orders the query may return the rows in: rows of equal frequency are
\* in no particular order.
OrderedByFrequency(rows) ==
    {s \in [1..Cardinality(rows) -> rows] :
        /\ \A i, j \in DOMAIN s : i # j => s[i] # s[j]
        /\ \A i, j \in DOMAIN s :
               i < j => s[i].matching_words_frequency >= s[j].matching_words_frequency}

\* LIMIT n.
Limit(table, n) == SubSeq(table, 1, IF n < Len(table) THEN n ELSE Len(table))

\* limit_clause of twiga_core_search.py (lines 113, 154, 218): LIMIT only
\* if results_number > 0.
LimitClause(table, n) == IF n > 0 THEN Limit(table, n) ELSE table

\* What a searcher of twiga_core_search.py may return for the rows of its
\* SELECT.
Limited(rows, n) ==
    {LimitClause(table, n) : table \in OrderedByFrequency(rows)}

\* What a searcher of twiga_core.py may return: LIMIT {results_number}
\* whatever the number (lines 355, 463).
CoreLimited(rows, n) ==
    {Limit(table, n) : table \in OrderedByFrequency(rows)}

\* None for a table without rows, else the table.
Returned_table(table) == [none |-> table = <<>>, rows |-> table]

NoTable == [none |-> TRUE, rows |-> <<>>]

(***************************************************************************)
(* twiga_text_reader of twiga_text.py.  A row of a text table is a text_id *)
(* with its text; NULL stands in the columns of a LEFT JOIN row without a  *)
(* partner.                                                                *)
(***************************************************************************)
TextBinNumber(text_id, text_bins) == (text_id % text_bins) + 1

Columns(table) == IF table = <<>> THEN {} ELSE DOMAIN table[1]

\* The columns of text_id_table the reader names (lines 49, 83-85, 91-92).
TextReaderColumns == {"text_id", "matching_words", "words_total", "term_frequency"}

\* What a call may return or raise.  Lines 49-78: text_table holds the rows
\* of the requested ids, each read from the table of its bin.  Lines 80-94:
\* every row of text_id_table with the row of text_table of its text_id, or
\* with NULLs where text_table has none, in descending order of
\* term_frequency (rows of equal frequency in no particular order); a
\* column text_id_table does not have makes the query fail to bind.  Lines
\* 96-99: None for a table without rows.
twiga_text_reader(text_id_table, text_bins, text_store) ==
    LET text_table ==
            UNION {{tt \in text_store[TextBinNumber(text_id_table[i].text_id,
                                                    text_bins)] :
                       tt.text_id = text_id_table[i].text_id} :
                   i \in DOMAIN text_id_table}
        joined(tit) ==
            IF \E tt \in text_table : tt.text_id = tit.text_id
            THEN LET tt == CHOOSE x \in text_table : x.text_id = tit.text_id
                 IN  [matching_words |-> tit.matching_words,
                      total_words    |-> tit.words_total,
                      term_frequency |-> tit.term_frequency,
                      text_id        |-> tt.text_id,
                      text           |-> tt.text]
            ELSE [matching_words |-> tit.matching_words,
                  total_words    |-> tit.words_total,
                  term_frequency |-> tit.term_frequency,
                  text_id        |-> NULL,
                  text           |-> NULL]
        orders ==
            {p \in [DOMAIN text_id_table -> DOMAIN text_id_table] :
                /\ \A i, j \in DOMAIN p : i # j => p[i] # p[j]
                /\ \A i, j \in DOMAIN p :
                       i < j => text_id_table[p[i]].term_frequency
                                    >= text_id_table[p[j]].term_frequency}
    IN  IF TextReaderColumns \subseteq Columns(text_id_table)
        THEN {IF text_id_table = <<>>
              THEN [status |-> "None", value |-> <<>>]
              ELSE Returned([i \in DOMAIN text_id_table |->
                                joined(text_id_table[p[i]])]) : p \in orders}
        ELSE {Raised("BinderException")}

(***************************************************************************)
(* The searchers' specification.                                           *)
(***************************************************************************)
Searchers == {"single_word", "any_position", "exact_phrase",
              "core_single_word", "core_multiple_words"}

SearchInit ==
    /\ search_pc = "ready"
    /\ search_texts \in [TextIds -> SeqsUpTo(SearchWords, MaxDocLen)]
    /\ search_request \in SeqsUpTo(SearchWords, MaxQueryLen) \ {<<>>}
    /\ \E mapping_dict \in MappingDicts(Range(twiga_request_hasher(search_request))) :
          /\ hash_id_list =
                 HashIdList(twiga_request_hasher(search_request), mapping_dict)
          /\ hash_table = PostingsTable(search_texts,
                 twiga_request_hasher(search_request), mapping_dict)
    /\ results_number \in ResultsNumbers
    /\ result_table = NoTable
    /\ text_reader_result = Raised("none")

SearchIdle ==
    /\ search_pc = "idle"
    /\ search_texts = <<>>
    /\ search_request = <<>>
    /\ hash_id_list = <<>>
    /\ hash_table = EmptyBag
    /\ results_number = 0
    /\ result_table = NoTable
    /\ text_reader_result = Raised("none")

\* A searcher has run and returned table.
SearcherReturns(searcher, table) ==
    /\ result_table' = Returned_table(table)
    /\ search_pc' = searcher
    /\ UNCHANGED <<search_texts, search_request, hash_id_list, hash_table,
                   results_number, text_reader_result>>
    /\ UNCHANGED <<writer_vars, reader_vars, text_vars, hasher_vars,
                 optimizer_vars>>

\* twiga_single_word_searcher of twiga_core_search.py; text_searcher of
\* demo_searcher.py calls it for a request of one word (line 105).
SearchSingleWord ==
    /\ search_pc = "ready"
    /\ Len(hash_id_list) = 1
    /\ \E rows \in SingleWordRowSets(hash_table, SearchWordCounts) :
          \E table \in Limited(rows, results_number) :
              SearcherReturns("single_word", table)

\* twiga_any_position_searcher; text_searcher calls it for a request of
\* more than one word (line 112).
SearchAnyPosition ==
    /\ search_pc = "ready"
    /\ Len(hash_id_list) > 1
    /\ \E table \in Limited(AnyPositionRows(hash_table, hash_id_list,
                                            SearchWordCounts), results_number) :
          SearcherReturns("any_position", table)

\* twiga_exact_phrase_searcher; mcp_search of demo_searcher.py calls it for
\* every request (lines 241-247).
SearchExactPhrase ==
    /\ search_pc = "ready"
    /\ \E table \in Limited(ExactPhraseRows(hash_table, hash_id_list,
                                            SearchWordCounts), results_number) :
          SearcherReturns("exact_phrase", table)

\* twiga_single_word_searcher of twiga_core.py.
CoreSearchSingleWord ==
    /\ search_pc = "ready"
    /\ \E rows \in SingleWordRowSets(hash_table, SearchWordCounts) :
          \E table \in CoreLimited(rows, results_number) :
              SearcherReturns("core_single_word", table)

\* twiga_multiple_words_searcher of twiga_core.py.
CoreSearchMultipleWords ==
    /\ search_pc = "ready"
    /\ \E table \in CoreLimited(MultipleWordsRows(hash_table, hash_id_list,
                                    SearchWordCounts), results_number) :
          SearcherReturns("core_multiple_words", table)

\* text_searcher of demo_searcher.py, lines 136-141: the table a searcher
\* returned, unless it is None, goes to twiga_text_reader.
TextRead ==
    /\ search_pc \in Searchers
    /\ ~result_table.none
    /\ text_reader_result' \in
           twiga_text_reader(result_table.rows, TextBins, texts_bin)
    /\ search_pc' = "text_read"
    /\ UNCHANGED <<search_texts, search_request, hash_id_list, hash_table,
                   results_number, result_table>>
    /\ UNCHANGED <<writer_vars, reader_vars, text_vars, hasher_vars,
                 optimizer_vars>>

(***************************************************************************)
(* twiga_text_writer of twiga_text.py.  A row of the batch is a text_id    *)
(* with its text; the text is the number of the call that brought it.      *)
(***************************************************************************)
\* Lines 17-25: bin_indices, a dict in insertion order, as the sequence of
\* its items <<bin_number, indices>>; index counts the rows from 1.
RECURSIVE BinIndicesLoop(_, _, _, _)
BinIndicesLoop(text_ids, text_bins, index, items) ==
    IF index > Len(text_ids) THEN items
    ELSE LET bin_number == TextBinNumber(text_ids[index], text_bins)
         IN  IF \E j \in DOMAIN items : items[j][1] = bin_number
             THEN BinIndicesLoop(text_ids, text_bins, index + 1,
                      [j \in DOMAIN items |->
                          IF items[j][1] = bin_number
                          THEN <<bin_number, Append(items[j][2], index)>>
                          ELSE items[j]])
             ELSE BinIndicesLoop(text_ids, text_bins, index + 1,
                      Append(items, <<bin_number, <<index>> >>))

BinIndices(table, text_bins) ==
    BinIndicesLoop([i \in DOMAIN table |-> table[i].text_id], text_bins, 1, <<>>)

\* batch_table.take(indices), line 31.
Take(table, indices) == [i \in DOMAIN indices |-> table[indices[i]]]

\* text_id is the PRIMARY KEY of a texts_bin_k table.
TextInsertAllowed(table_rows, partition) ==
    /\ \A i \in DOMAIN partition : \A r \in table_rows :
           r.text_id # partition[i].text_id
    /\ \A i, j \in DOMAIN partition :
           i # j => partition[i].text_id # partition[j].text_id

\* An INSERT that is committed as it runs, as without BEGIN TRANSACTION.
StoreAfterAutocommit(store, bin_number, rows) ==
    [store EXCEPT ![bin_number] = @ \cup rows]

\* The committed tables after an INSERT of the open transaction.
StoreAfterInsert(store, bin_number, rows) == store

TextStoreBins == 1..TextBins

TextBatches(call) ==
    {[i \in DOMAIN ids |-> [text_id |-> ids[i], text |-> call]] :
        ids \in SeqsUpTo(StoreTextIds, MaxTextRows)}

\* The text database as demo_text_maker.py creates it.
TextIdle ==
    /\ texts_bin = [k \in TextStoreBins |-> {}]
    /\ text_tx = [k \in TextStoreBins |-> {}]
    /\ text_tx_open = FALSE
    /\ text_pc = "idle"
    /\ batch_table = <<>>
    /\ bin_indices = <<>>
    /\ text_writer_result = Raised("none")
    /\ text_writes = 0

\* Lines 15-27.
TextWriterBegin(table) ==
    /\ UNCHANGED <<writer_vars, search_vars, reader_vars, hasher_vars,
                 optimizer_vars>>
    /\ text_pc = "idle"
    /\ text_writes < MaxTextWrites
    /\ ~text_tx_open
    /\ batch_table' = table
    /\ bin_indices' = BinIndices(table, TextBins)
    /\ text_tx_open' = TRUE
    /\ text_pc' = "inserting"
    /\ text_writer_result' = Raised("none")
    /\ UNCHANGED <<texts_bin, text_tx, text_writes>>

\* Line 27 on a connection whose transaction a failed call has left open:
\* BEGIN TRANSACTION inside a transaction is an error.
TextWriterBeginFails(table) ==
    /\ UNCHANGED <<writer_vars, search_vars, reader_vars, hasher_vars,
                 optimizer_vars>>
    /\ text_pc = "idle"
    /\ text_writes < MaxTextWrites
    /\ text_tx_open
    /\ batch_table' = table
    /\ text_writer_result' = Raised("TransactionException")
    /\ text_writes' = text_writes + 1
    /\ UNCHANGED <<texts_bin, text_tx, text_tx_open, text_pc, bin_indices>>

\* Lines 30-35: the INSERT of the next item of bin_indices.
TextWriterInsert ==
    /\ UNCHANGED <<writer_vars, search_vars, reader_vars, hasher_vars,
                 optimizer_vars>>
    /\ text_pc = "inserting"
    /\ bin_indices # <<>>
    /\ LET bin_number == Head(bin_indices)[1]
           partition == Take(batch_table, Head(bin_indices)[2])
       IN  /\ TextInsertAllowed(texts_bin[bin_number] \cup text_tx[bin_number],
                                partition)
           /\ text_tx' = [text_tx EXCEPT ![bin_number] = @ \cup Range(partition)]
           /\ texts_bin' = StoreAfterInsert(texts_bin, bin_number, Range(partition))
    /\ bin_indices' = Tail(bin_indices)
    /\ UNCHANGED <<text_tx_open, text_pc, batch_table, text_writer_result,
                   text_writes>>

\* An INSERT fails (the primary key, the disk): the exception leaves the
\* function, which has no ROLLBACK; the transaction stays open.
TextWriterInsertFails ==
    /\ UNCHANGED <<writer_vars, search_vars, reader_vars, hasher_vars,
                 optimizer_vars>>
    /\ text_pc = "inserting"
    /\ bin_indices # <<>>
    /\ text_writer_result' = Raised("Exception")
    /\ text_pc' = "idle"
    /\ text_writes' = text_writes + 1
    /\ UNCHANGED <<texts_bin, text_tx, text_tx_open, batch_table, bin_indices>>

\* Lines 37-39.
TextWriterCommit ==
    /\ UNCHANGED <<writer_vars, search_vars, reader_vars, hasher_vars,
                 optimizer_vars>>
    /\ text_pc = "inserting"
    /\ bin_indices = <<>>
    /\ texts_bin' = [k \in TextStoreBins |-> texts_bin[k] \cup text_tx[k]]
    /\ text_tx' = [k \in TextStoreBins |-> {}]
    /\ text_tx_open' = FALSE
    /\ text_writer_result' = Returned(<<TRUE>>)
    /\ text_pc' = "idle"
    /\ text_writes' = text_writes + 1
    /\ UNCHANGED <<batch_table, bin_indices>>

\* The caller closes the connection, or its process ends, with the
\* transaction open: the transaction is rolled back.
TextConnectionClose ==
    /\ UNCHANGED <<writer_vars, search_vars, reader_vars, hasher_vars,
                 optimizer_vars>>
    /\ text_pc = "idle"
    /\ text_tx_open
    /\ text_tx' = [k \in TextStoreBins |-> {}]
    /\ text_tx_open' = FALSE
    /\ UNCHANGED <<texts_bin, text_pc, batch_table, bin_indices,
                   text_writer_result, text_writes>>

TextNext ==
    \/ \E table \in TextBatches(text_writes + 1) : TextWriterBegin(table)
    \/ \E table \in TextBatches(text_writes + 1) : TextWriterBeginFails(table)
    \/ TextWriterInsert
    \/ TextWriterInsertFails
    \/ TextWriterCommit
    \/ TextConnectionClose

(***************************************************************************)
(* twiga_index_optimizer.py: main and reorder_bin_table, on a database     *)
(* with tables index.bin_k of the columns hash, text_id, positions.        *)
(***************************************************************************)
MaxBinRows == 2           \* rows of a table index.bin_k

\* The rows a table index.bin_k may hold.
BinRows(bin_number) ==
    {row \in [hash : {blake2b(w, 32) : w \in {"ab", "fox", "dog"}},
              text_id : TextIds, positions : {<<0>>}] :
        BinNumber(row.hash, IndexBins) = bin_number}

MissingTable == [exists |-> FALSE, rows |-> <<>>]

Table(rows) == [exists |-> TRUE, rows |-> rows]

\* The databases the optimizer is run on: every table index.bin_k with any
\* rows in any storage order, or missing.
InputTables ==
    {tables \in [Bins -> {MissingTable} \cup
                         {Table(rows) : rows \in
                             UNION {SeqsUpTo(BinRows(k), MaxBinRows) : k \in Bins}}] :
        \A k \in Bins : Range(tables[k].rows) \subseteq BinRows(k)}

NoTransaction == [open |-> FALSE, rows |-> <<>>]

\* SELECT ... ORDER BY hash ASC (lines 73-81): the rows in ascending order
\* of hash, rows of one hash in no particular order.
OrderedByHash(rows) ==
    {[i \in DOMAIN rows |-> rows[p[i]]] :
        p \in {q \in [DOMAIN rows -> DOMAIN rows] :
                  /\ \A i, j \in DOMAIN q : i # j => q[i] # q[j]
                  /\ \A i, j \in DOMAIN q :
                         i < j => HexToInt(rows[q[i]].hash)
                                      <= HexToInt(rows[q[j]].hash)}}

OptimizerIdle ==
    /\ bin_tables = [k \in Bins |-> MissingTable]
    /\ input_tables = [k \in Bins |-> MissingTable]
    /\ idx = 0
    /\ optimizer_pc = "idle"
    /\ temp_reorder = MissingTable
    /\ cursor_table = NoTransaction
    /\ tables_processed = <<>>

\* Lines 133-146: the database is attached and the loop is at its first
\* table.
OptimizerInit ==
    /\ bin_tables \in InputTables
    /\ input_tables = bin_tables
    /\ idx = 1
    /\ optimizer_pc = "reorder"
    /\ temp_reorder = MissingTable
    /\ cursor_table = NoTransaction
    /\ tables_processed = <<>>

\* A DELETE that is committed as it runs, as without BEGIN TRANSACTION.
TableAfterAutocommitDelete(table) == [table EXCEPT !.rows = <<>>]

\* The committed table after the DELETE of the open transaction (line 93).
TableAfterDelete(table) == table

\* A temporary table that outlives the cursor that made it.
TempTableLeftBehind(temp) == temp

\* The temporary table after reorder_bin_table has raised: the table
\* belongs to the cursor, which is released with the function's frame.
TempTableAfterFailure(temp) == MissingTable

\* Lines 149-161 and 163-173: the entry of table idx is appended and the
\* loop goes to the next table, or to line 175 after the last.
NextTable(status) ==
    /\ tables_processed' = Append(tables_processed,
                                  [name |-> idx, status |-> status])
    /\ idx' = idx + 1
    /\ optimizer_pc' = IF idx = IndexBins THEN "checkpoint" ELSE "reorder"

\* Lines 69-88: the cursor, and CREATE TEMPORARY TABLE temp_reorder AS
\* SELECT ... FROM index.bin_k ORDER BY hash, in autocommit.
OptimizerCopy ==
    /\ optimizer_pc = "reorder"
    /\ bin_tables[idx].exists
    /\ ~temp_reorder.exists
    /\ temp_reorder' \in {Table(rows) : rows \in OrderedByHash(bin_tables[idx].rows)}
    /\ optimizer_pc' = "begin"
    /\ UNCHANGED <<bin_tables, input_tables, idx, cursor_table, tables_processed>>
    /\ UNCHANGED <<writer_vars, search_vars, reader_vars, text_vars, hasher_vars>>

\* Lines 73-81 fail: no table index.bin_k, or a table temp_reorder exists.
OptimizerCopyFails ==
    /\ optimizer_pc = "reorder"
    /\ ~bin_tables[idx].exists \/ temp_reorder.exists
    /\ NextTable("failed")
    /\ temp_reorder' = TempTableAfterFailure(temp_reorder)
    /\ UNCHANGED <<bin_tables, input_tables, cursor_table>>
    /\ UNCHANGED <<writer_vars, search_vars, reader_vars, text_vars, hasher_vars>>

\* Lines 91-93: BEGIN TRANSACTION and DELETE FROM index.bin_k.
OptimizerDelete ==
    /\ optimizer_pc = "begin"
    /\ cursor_table' = [open |-> TRUE, rows |-> <<>>]
    /\ bin_tables' = [bin_tables EXCEPT ![idx] = TableAfterDelete(@)]
    /\ optimizer_pc' = "insert"
    /\ UNCHANGED <<input_tables, idx, temp_reorder, tables_processed>>
    /\ UNCHANGED <<writer_vars, search_vars, reader_vars, text_vars, hasher_vars>>

\* Lines 95-98: INSERT INTO index.bin_k SELECT * FROM temp_reorder.
OptimizerInsert ==
    /\ optimizer_pc = "insert"
    /\ cursor_table' = [cursor_table EXCEPT !.rows = temp_reorder.rows]
    /\ optimizer_pc' = "commit"
    /\ UNCHANGED <<bin_tables, input_tables, idx, temp_reorder, tables_processed>>
    /\ UNCHANGED <<writer_vars, search_vars, reader_vars, text_vars, hasher_vars>>

\* Lines 100-106: COMMIT, DROP TABLE temp_reorder, close the cursor, return.
OptimizerCommit ==
    /\ optimizer_pc = "commit"
    /\ bin_tables' = [bin_tables EXCEPT ![idx] = Table(cursor_table.rows)]
    /\ cursor_table' = NoTransaction
    /\ temp_reorder' = MissingTable
    /\ NextTable("success")
    /\ UNCHANGED input_tables
    /\ UNCHANGED <<writer_vars, search_vars, reader_vars, text_vars, hasher_vars>>

\* A statement of lines 91-100 fails (the disk, the memory): the exception
\* leaves reorder_bin_table, which has no ROLLBACK; the cursor is released
\* with its open transaction, which is never committed.
OptimizerStatementFails ==
    /\ optimizer_pc \in {"begin", "insert", "commit"}
    /\ cursor_table' = NoTransaction
    /\ temp_reorder' = TempTableAfterFailure(temp_reorder)
    /\ NextTable("failed")
    /\ UNCHANGED <<bin_tables, input_tables>>
    /\ UNCHANGED <<writer_vars, search_vars, reader_vars, text_vars, hasher_vars>>

\* Lines 175-176: CHECKPOINT index and close.
OptimizerCheckpoint ==
    /\ optimizer_pc = "checkpoint"
    /\ optimizer_pc' = "done"
    /\ UNCHANGED <<bin_tables, input_tables, idx, temp_reorder, cursor_table,
                   tables_processed>>
    /\ UNCHANGED <<writer_vars, search_vars, reader_vars, text_vars, hasher_vars>>

OptimizerNext ==
    \/ OptimizerCopy
    \/ OptimizerCopyFails
    \/ OptimizerDelete
    \/ OptimizerInsert
    \/ OptimizerCommit
    \/ OptimizerStatementFails
    \/ OptimizerCheckpoint

HasherIdle ==
    /\ hasher_arguments = << <<>>, <<>> >>
    /\ hasher_batch_maximum = 0
    /\ hasher_batches = <<>>

(***************************************************************************)
(* twiga_text_reader called with a table of the columns it names, on the   *)
(* text database twiga_text_writer has filled.                             *)
(***************************************************************************)
\* The tables a caller passes as text_id_table: one row per text, in
\* descending order of term_frequency, never without rows (a searcher
\* returns None in place of such a table and no caller passes None on).
TextIdTables ==
    {table \in [1..1 -> StoreTextIds \X {1, 2}] \cup
                [1..2 -> StoreTextIds \X {1, 2}] :
        /\ \A i, j \in DOMAIN table : i # j => table[i][1] # table[j][1]
        /\ \A i, j \in DOMAIN table : i < j => table[i][2] >= table[j][2]}

TextIdTable(table) ==
    [i \in DOMAIN table |->
        [text_id        |-> table[i][1],
         matching_words |-> table[i][2],
         words_total    |-> 2,
         term_frequency |-> RoundedFrequency(table[i][2], 2)]]

\* A call of twiga_text_reader between two calls of the text writer.
TextReaderCall ==
    /\ search_pc = "text_id_table"
    /\ text_pc = "idle"
    /\ text_reader_result' \in
           twiga_text_reader(result_table.rows, TextBins, texts_bin)
    /\ search_pc' = "text_read"
    /\ UNCHANGED <<search_texts, search_request, hash_id_list, hash_table,
                   results_number, result_table>>
    /\ UNCHANGED <<writer_vars, reader_vars, text_vars, hasher_vars,
                   optimizer_vars>>

(***************************************************************************)
(* The hasher batches of twiga_index_writer (lines 164-190) for every      *)
(* list of texts and every hasher_batch_maximum.                           *)
(***************************************************************************)
HasherTextIds == {1, 2, 3}

\* text_id_list and text_words_list of a call: distinct text ids, each with
\* its words without the stopwords.
HasherArguments ==
    {<<ids, words>> :
        <<ids, words>> \in
            UNION {{ids \in [1..n -> HasherTextIds] :
                       \A i, j \in 1..n : i # j => ids[i] # ids[j]}
                   \X [1..n -> SeqsUpTo(Words \ stopword_set, MaxTextLen)] :
                   n \in 0..Cardinality(HasherTextIds)}}

\* Lines 166-190.
HasherBatchesBuilt ==
    /\ hasher_batches = <<>>
    /\ hasher_batches' = HasherBatches(hasher_arguments[1], hasher_arguments[2],
                                       hasher_batch_maximum)
    /\ UNCHANGED <<hasher_arguments, hasher_batch_maximum>>
    /\ UNCHANGED <<writer_vars, search_vars, reader_vars, text_vars,
                   optimizer_vars>>

vars == <<writer_vars, search_vars, reader_vars, text_vars, hasher_vars,
         optimizer_vars>>

\* The indexing run: twiga_index_writer calls on the index the creator made.
Init ==
    WriterInit /\ SearchIdle /\ ReaderIdle /\ TextIdle /\ HasherIdle
        /\ OptimizerIdle

Next == WriterNext

Spec == Init /\ [][Next]_vars

\* The index as twiga_index_creator leaves it, with no text to write.
WriterIdle ==
    /\ module_index_bins = {}
    /\ texts = [d \in TextIds |-> <<>>]
    /\ word_counts = {}
    /\ hash_id_sequence = 1
    /\ hash_dict = [k \in Bins |-> {}]
    /\ hash_index = [k \in Bins |-> EmptyBag]
    /\ writer_pc = "idle"
    /\ text_id_list = <<>>
    /\ hashes = <<>>
    /\ task = [t \in Threads |-> IdleTask]
    /\ writer_result = Raised("none")
    /\ batches_done = 0
    /\ issued = EmptyBag
    /\ outcomes = <<>>
    /\ catalog = CreatedCatalog
    /\ creator_result = Raised("none")

\* The searchers, each on every postings table, and the text reader.
SearchNext ==
    \/ SearchSingleWord
    \/ SearchAnyPosition
    \/ SearchExactPhrase
    \/ CoreSearchSingleWord
    \/ CoreSearchMultipleWords
    \/ TextRead

SearchSpecInit ==
    WriterIdle /\ SearchInit /\ ReaderIdle /\ TextIdle /\ HasherIdle
        /\ OptimizerIdle

SearchSpec == SearchSpecInit /\ [][SearchNext]_vars

\* text_searcher of demo_searcher.py, lines 105-111: the single-word
\* searcher runs for requests of one word.
SingleWordInit ==
    /\ WriterIdle /\ SearchInit /\ ReaderIdle /\ TextIdle /\ HasherIdle
    /\ OptimizerIdle
    /\ Len(hash_id_list) = 1

SingleWordNext == SearchSingleWord

SingleWordSpec == SingleWordInit /\ [][SingleWordNext]_vars

\* The index database from before twiga_index_creator has run on it, with
\* the creator, the writer and the reader.
NoIndex ==
    /\ module_index_bins \in {{}, {IndexBins}}
    /\ texts \in [TextIds -> SeqsUpTo(Words, MaxTextLen)]
    /\ word_counts = {}
    /\ hash_id_sequence = 1
    /\ hash_dict = [k \in Bins |-> {}]
    /\ hash_index = [k \in Bins |-> EmptyBag]
    /\ writer_pc = "idle"
    /\ text_id_list = <<>>
    /\ hashes = <<>>
    /\ task = [t \in Threads |-> IdleTask]
    /\ writer_result = Raised("none")
    /\ batches_done = 0
    /\ issued = EmptyBag
    /\ outcomes = <<>>
    /\ catalog = {}
    /\ creator_result = Raised("none")

IndexInit ==
    NoIndex /\ SearchIdle /\ ReaderIdle /\ TextIdle /\ HasherIdle
        /\ OptimizerIdle

IndexNext ==
    \/ WriterNext
    \/ \E ids \in TextIdLists : WriterCatalogError(ids)
    \/ twiga_index_creator
    \/ IndexReadEmpty
    \/ \E request_hash_list \in ReaderRequests : IndexReadFails(request_hash_list)

IndexSpec == IndexInit /\ [][IndexNext]_vars

TextSpecInit ==
    WriterIdle /\ SearchIdle /\ ReaderIdle /\ TextIdle /\ HasherIdle
        /\ OptimizerIdle

TextSpec == TextSpecInit /\ [][TextNext]_vars

TextReaderSpecInit ==
    /\ WriterIdle /\ ReaderIdle /\ TextIdle /\ HasherIdle /\ OptimizerIdle
    /\ search_pc = "text_id_table"
    /\ search_texts = <<>>
    /\ search_request = <<>>
    /\ hash_id_list = <<>>
    /\ hash_table = EmptyBag
    /\ results_number = 0
    /\ \E table \in TextIdTables :
          result_table = Returned_table(TextIdTable(table))
    /\ text_reader_result = Raised("none")

TextReaderNext == TextNext \/ TextReaderCall

TextReaderSpec == TextReaderSpecInit /\ [][TextReaderNext]_vars

HasherSpecInit ==
    /\ WriterIdle /\ SearchIdle /\ ReaderIdle /\ TextIdle /\ OptimizerIdle
    /\ hasher_arguments \in HasherArguments
    /\ hasher_batch_maximum \in 1..HasherBatchMaximum
    /\ hasher_batches = <<>>

HasherSpec == HasherSpecInit /\ [][HasherBatchesBuilt]_vars

OptimizerSpecInit ==
    WriterIdle /\ SearchIdle /\ ReaderIdle /\ TextIdle /\ HasherIdle
        /\ OptimizerInit

OptimizerSpec == OptimizerSpecInit /\ [][OptimizerNext]_vars

\* The script runs on: the interpreter takes every statement in turn.
OptimizerLiveSpec == OptimizerSpec /\ WF_vars(OptimizerNext)

(***************************************************************************)
(* twiga_exact_phrase_searcher for a request of more than ten distinct     *)
(* words: mapping_dict numbers them 0, 1, ... and the numbers from 10 on   *)
(* have two digits.                                                        *)
(***************************************************************************)
\* The distinct words of the request; the word at place n + 1 has the
\* number n in mapping_dict.
LongWords == <<"w0", "w1", "w2", "w3", "w4", "w5", "w6", "w7", "w8", "w9",
               "w10", "w11">>

\* The orders of the words of a request or of a text: the words numbered
\* 0, 1, 10 and 11 first, in any order, then the words 2 to 9.
LongIdLists ==
    LET first == {h \in [1..4 -> {0, 1, 10, 11}] :
                     \A i, j \in 1..4 : i # j => h[i] # h[j]}
    IN  {[i \in DOMAIN LongWords |-> IF i <= 4 THEN h[i] ELSE i - 3] :
            h \in first}

\* What twiga_index_reader returns for a request of the words of LongWords
\* and an index of one text that has every one of them once.
LongQueryInit ==
    /\ WriterIdle /\ ReaderIdle /\ TextIdle /\ HasherIdle /\ OptimizerIdle
    /\ search_pc = "ready"
    /\ \E request_ids \in LongIdLists, text_ids \in LongIdLists, d \in TextIds :
          /\ hash_id_list = request_ids
          /\ search_request =
                 [i \in DOMAIN request_ids |-> LongWords[request_ids[i] + 1]]
          /\ search_texts =
                 [t \in TextIds |->
                     IF t = d
                     THEN [i \in DOMAIN text_ids |-> LongWords[text_ids[i] + 1]]
                     ELSE <<>>]
          /\ hash_table =
                 SetToBag({[hash_id   |-> text_ids[i],
                            text_id   |-> d,
                            positions |-> <<i - 1>>] : i \in DOMAIN text_ids})
    /\ results_number \in ResultsNumbers
    /\ result_table = NoTable
    /\ text_reader_result = Raised("none")

LongQuerySpec == LongQueryInit /\ [][SearchExactPhrase]_vars

(***************************************************************************)
(* Properties of the index writer.                                         *)
(***************************************************************************)
AllDictRows == UNION {{<<k, hd>> : hd \in hash_dict[k]} : k \in Bins}

\* The words of text d that are no stopwords, in order.
FilteredTokens(d) == SelectSeq(texts[d], LAMBDA w : w \notin stopword_set)

StrictlyIncreasing(P) == \A i \in 1..(Len(P) - 1) : P[i] < P[i + 1]

\* A writer call has returned normally and the writer is idle.
BatchReturned == writer_pc = "idle" /\ writer_result.status = "returned"

\* C3: in the committed dictionaries of all shards taken together no two
\* rows carry the same hash_id and no hash is in the dictionaries of two
\* shards, whatever the interleaving of the writer threads.
C3_HashIdGloballyUnique ==
    \A x, y \in AllDictRows :
        /\ x[2].hash_id = y[2].hash_id => x = y
        /\ x[2].hash = y[2].hash => x[1] = y[1]

\* Two threads of the first batch have both committed a dictionary row.
C3_Witness ==
    /\ batches_done = 0
    /\ \E j, k \in Bins : j # k /\ hash_dict[j] # {} /\ hash_dict[k] # {}

\* C4: every committed row of bin_k_hash_index has a hash_id that is not
\* NULL and is in the committed bin_k_hash_dict of the same shard.
C4_PostingsHaveDictHash ==
    \A k \in Bins : \A row \in BagToSet(hash_index[k]) :
        /\ row.hash_id # NULL
        /\ \E hd \in hash_dict[k] : hd.hash_id = row.hash_id

\* A transaction has committed postings of hashes it added to the dictionary.
C4_Witness ==
    /\ batches_done = 0
    /\ \E k \in Bins : hash_index[k] # EmptyBag /\ hash_dict[k] # {}

\* C5: the positions of every stored posting (h, d, P) are non-empty,
\* strictly increasing and exactly the 0-based indices of the tokens with
\* hash h in the stopword-filtered token sequence of d.
C5_PositionsAreTokenIndices ==
    \A k \in Bins : \A row \in BagToSet(hash_index[k]) :
        \E hd \in hash_dict[k] :
            /\ hd.hash_id = row.hash_id
            /\ row.positions # <<>>
            /\ StrictlyIncreasing(row.positions)
            /\ Range(row.positions) =
                   {i - 1 : i \in {j \in DOMAIN FilteredTokens(row.text_id) :
                       blake2b(FilteredTokens(row.text_id)[j], 32) = hd.hash}}

\* A posting of a text that starts with a stopword, and a posting with two
\* positions, are stored.
C5_Witness ==
    /\ \E k \in Bins : \E row \in BagToSet(hash_index[k]) :
          /\ texts[row.text_id] # <<>>
          /\ Head(texts[row.text_id]) \in stopword_set
    /\ \E k \in Bins : \E row \in BagToSet(hash_index[k]) : Len(row.positions) = 2

PositionsTotalOfText(d) ==
    SumSeq([k \in 1..IndexBins |-> PositionsTotal(RowsOfText(hash_index[k], d))])

\* C6: after a write batch, for every text of the batch the sum of
\* |positions| over its posting rows in all shards is its words_total.
C6_PositionsSumToWordsTotal ==
    BatchReturned =>
        \A d \in Range(text_id_list) : \A wc \in word_counts :
            wc.text_id = d => PositionsTotalOfText(d) = wc.words_total

\* C7: after twiga_index_writer has returned for a batch, word_counts has
\* exactly one row for every text of the batch, and its words_total is the
\* number of tokens of the text that are no stopwords.
C7_WordCountsOfBatch ==
    BatchReturned =>
        \A d \in Range(text_id_list) :
            /\ Cardinality({wc \in word_counts : wc.text_id = d}) = 1
            /\ \A wc \in word_counts :
                   wc.text_id = d => wc.words_total = Len(FilteredTokens(d))

\* A batch has returned that holds a text of stopwords only and a text with
\* a stopword and another word.
C7_Witness ==
    /\ BatchReturned
    /\ \E d \in Range(text_id_list) :
          texts[d] # <<>> /\ FilteredTokens(d) = <<>>
    /\ \E d \in Range(text_id_list) :
          FilteredTokens(d) # <<>> /\ Len(FilteredTokens(d)) < Len(texts[d])

\* C8: every dictionary row and every posting of a hash h is in shard
\* (int(h, 16) mod N) + 1 only, and twiga_index_reader routes h to that
\* shard and to no other.
C8_ShardRouting ==
    \A k \in Bins :
        /\ \A hd \in hash_dict[k] :
              /\ k = (HexToInt(hd.hash) % IndexBins) + 1
              /\ DOMAIN ReaderBinDict(<<hd.hash>>, IndexBins) = {k}
        /\ \A row \in BagToSet(hash_index[k]) :
              \A j \in Bins : \A hd \in hash_dict[j] :
                  hd.hash_id = row.hash_id => j = k

\* Two batches have been written and two shards hold postings.
C8_Witness ==
    /\ batches_done = 2
    /\ BatchReturned
    /\ \E j, k \in Bins : j # k /\ hash_index[j] # EmptyBag
                                /\ hash_index[k] # EmptyBag

C9_Step ==
    /\ \A k \in Bins : \A hd \in hash_dict[k] : hd \in hash_dict'[k]
    /\ \A x, y \in AllDictRows' :
           (x[2].hash = y[2].hash \/ x[2].hash_id = y[2].hash_id) => x = y
    /\ \A v \in BagToSet(issued') : CopiesIn(v, issued') = 1

\* C9: a committed dictionary row stays as it is in every later step, no
\* hash gets a second hash_id, no hash_id a second hash, and no value of
\* hash_id_sequence is issued twice, also after an aborted transaction.
C9_HashIdsImmutable == [][C9_Step]_vars

\* A value was drawn by a transaction that was aborted, and a later batch
\* has committed a hash with a value drawn after it.
C9_Witness ==
    /\ batches_done = 2
    /\ BatchReturned
    /\ \E v \in BagToSet(issued) :
          /\ \A x \in AllDictRows : x[2].hash_id # v
          /\ \E x \in AllDictRows : x[2].hash_id > v

\* The hashes under which postings of text d are stored.
PostingHashesOfText(d) ==
    UNION {{hd.hash : hd \in {x \in hash_dict[k] :
               \E row \in BagToSet(hash_index[k]) :
                   row.text_id = d /\ row.hash_id = x.hash_id}} : k \in Bins}

\* C10: for every indexed text, the hashes twiga_request_hasher yields for
\* its stopword-free words are the hashes its postings are stored under.
C10_RequestHashesAreIndexHashes ==
    BatchReturned =>
        \A d \in Range(text_id_list) :
            Range(twiga_request_hasher(FilteredTokens(d))) = PostingHashesOfText(d)

(***************************************************************************)
(* Properties of the searchers.                                            *)
(***************************************************************************)
\* The start positions p of the phrase in text d: for every k the postings
\* of d hold hash id ids[k] at position p + k.
PhraseStarts(ht, ids, d) ==
    {p \in {row[2] : row \in PositionRows(ht, d)} :
        \A k \in DOMAIN ids :
            \E r \in DOMAIN ht : /\ r.text_id = d
                          /\ r.hash_id = ids[k]
                          /\ (p + k - 1) \in Range(r.positions)}

\* C1: exact-phrase search without a limit returns a text if and only if
\* the phrase occurs in it at some start position, also when the phrase is
\* part of a longer run of positions taken by words of the request.
C1_ExactPhraseFindsEveryPhrase ==
    (search_pc = "exact_phrase" /\ results_number = 0) =>
        {r.text_id : r \in Range(result_table.rows)} =
            {d \in DOMAIN search_texts :
                PhraseStarts(hash_table, hash_id_list, d) # {}}

\* C2: every row of exact-phrase search has matching_words = (number of
\* start positions of the phrase in the text) * L; searching "ab ab" in the
\* text "ab ab ab" gives matching_words 4, words_total 3, frequency 1.33333.
C2_MatchingWordsCountOccurrences ==
    search_pc = "exact_phrase" =>
        /\ \A r \in Range(result_table.rows) :
               r.matching_words =
                   Cardinality(PhraseStarts(hash_table, hash_id_list, r.text_id))
                       * Len(hash_id_list)
        /\ \A d \in DOMAIN search_texts :
               (search_texts[d] = <<"ab", "ab", "ab">>
                    /\ search_request = <<"ab", "ab">>
                    /\ results_number = 0)
               => [text_id |-> d, matching_words |-> 4, words_total |-> 3,
                   matching_words_frequency |-> 133333]
                      \in Range(result_table.rows)

(***************************************************************************)
(* Properties of the reader and of the creator on the index database.      *)
(***************************************************************************)
\* The rows <<text_id, positions>> the index holds for hash h.
StoredRowsOfHash(h) ==
    UNION {{<<row.text_id, row.positions>> :
               row \in {x \in BagToSet(hash_index[k]) :
                           \E hd \in hash_dict[k] :
                               hd.hash = h /\ hd.hash_id = x.hash_id}} :
              k \in Bins}

\* A twiga_index_reader call is made in this step.
ReaderCalled == reader_result = NotCalled /\ reader_result' # NotCalled

C11_Step ==
    \A k \in Bins : \A hd \in hash_dict[k] :
        (ReaderCalled /\ reader_request' = <<hd.hash>>) =>
            /\ reader_result'.status = "returned"
            /\ {<<row.text_id, row.positions>> :
                   row \in BagToSet(reader_result'.hash_table)}
                   = StoredRowsOfHash(hd.hash)

\* C11: for every hash h in a committed dictionary, twiga_index_reader
\* called with [h] returns a postings table that holds exactly the rows
\* (text_id, positions) stored for h in the shard's bin_k_hash_index.
C11_ReaderReturnsStoredPostings == [][C11_Step]_vars

\* Hash h is in no row of its shard's dictionary.
AbsentFromDict(h) ==
    \A hd \in hash_dict[ReaderBinNumber(h, IndexBins)] : hd.hash # h

C14_Step ==
    (/\ ReaderCalled
     /\ \/ reader_request' = <<>>
        \/ \E i \in DOMAIN reader_request' : AbsentFromDict(reader_request'[i]))
    => reader_result' = NoneNone

\* C14: a twiga_index_reader call with an empty hash list, or with a hash
\* that is absent from its shard's dictionary, returns (None, None).
C14_ReaderReturnsNoneForAbsentHash == [][C14_Step]_vars

C18_Step ==
    (creator_result' # creator_result /\ WordCountsTable \in catalog) =>
        /\ creator_result'.status = "returned"
        /\ UNCHANGED <<catalog, word_counts, hash_id_sequence, hash_dict,
                       hash_index>>

\* C18: a twiga_index_creator call on an index that exists succeeds and
\* leaves the schema, every stored row and the sequence value unchanged.
C18_CreatorIdempotent == [][C18_Step]_vars

(***************************************************************************)
(* Properties of the searchers' results.                                   *)
(***************************************************************************)
\* How often word occurs in the searched text d.
OccurrencesIn(d, word) ==
    Cardinality({i \in DOMAIN search_texts[d] : search_texts[d][i] = word})

\* The distinct rows of text d in the postings table.
DistinctRowsOfText(d) == {r \in DOMAIN hash_table : r.text_id = d}

\* C12: any-position search without a limit returns exactly the texts whose
\* postings hold every distinct hash id of the request, one row per text,
\* and matching_words of a row is the sum of |positions| over one posting
\* per distinct hash of the request, also for a repeated term.
C12_AnyPositionCountsOccurrences ==
    (search_pc = "any_position" /\ results_number = 0) =>
        /\ {r.text_id : r \in Range(result_table.rows)} =
               {d \in DOMAIN search_texts :
                   Range(hash_id_list) \subseteq
                       {r.hash_id : r \in DistinctRowsOfText(d)}}
        /\ \A i, j \in DOMAIN result_table.rows :
               i # j => result_table.rows[i].text_id # result_table.rows[j].text_id
        /\ \A r \in Range(result_table.rows) :
               r.matching_words =
                   PositionsTotal(SetToBag(DistinctRowsOfText(r.text_id)))

\* f, in units of 0.00001, is matching_words / words_total rounded to 5
\* decimals.
IsRounded(f, matching_words, words_total) ==
    /\ 2 * (f * words_total - 100000 * matching_words) <= words_total
    /\ 2 * (100000 * matching_words - f * words_total) <= words_total

\* C13: single-word search returns one row per text that contains the term,
\* with matching_words the number of occurrences of the term in the text,
\* words_total the text's word count and the frequency their quotient
\* rounded to 5 decimals, however many posting rows the text has for the
\* term; without a limit every text that contains the term is returned.
C13_SingleWordCountsOccurrences ==
    search_pc = "single_word" =>
        LET term == search_request[1]
            rows == result_table.rows
        IN  /\ \A i, j \in DOMAIN rows : i # j => rows[i].text_id # rows[j].text_id
            /\ results_number = 0 =>
                   {r.text_id : r \in Range(rows)} =
                       {d \in DOMAIN search_texts : OccurrencesIn(d, term) > 0}
            /\ \A r \in Range(rows) :
                   /\ OccurrencesIn(r.text_id, term) > 0
                   /\ r.matching_words = OccurrencesIn(r.text_id, term)
                   /\ r.words_total = Len(search_texts[r.text_id])
                   /\ IsRounded(r.matching_words_frequency, r.matching_words,
                                r.words_total)

\* A text with the term twice, stored as two posting rows, is returned with
\* matching_words 2 of words_total 3.
C13_Witness ==
    /\ search_pc = "single_word"
    /\ \E row \in DOMAIN hash_table : hash_table[row] = 2
    /\ \E r \in Range(result_table.rows) :
          r.matching_words = 2 /\ r.words_total = 3
              /\ r.matching_words_frequency = 66667

\* C15: twiga_exact_phrase_searcher and twiga_multiple_words_searcher give
\* the same text ids with the same matching_words for every postings table
\* and every hash id list.
C15_PhraseSearchersAgree ==
    (search_pc = "exact_phrase" /\ results_number = 0) =>
        {<<r.text_id, r.matching_words>> : r \in Range(result_table.rows)} =
            {<<r.text_id, r.matching_words>> :
                r \in MultipleWordsRows(hash_table, hash_id_list, SearchWordCounts)}

\* The text ids of the rows that survive in the searcher that has run.
SurvivingTexts ==
    IF search_pc \in {"single_word", "core_single_word"}
    THEN {r.text_id : r \in DOMAIN hash_table}
    ELSE IF search_pc = "any_position"
         THEN TextsWithAllHashes(hash_table, hash_id_list)
         ELSE {r.text_id : r \in ExactPhraseRows(hash_table, hash_id_list,
                                                 SearchWordCounts)}

\* The row sets the SELECT of the searcher that has run may have.
SurvivingRowSets ==
    IF search_pc \in {"single_word", "core_single_word"}
    THEN SingleWordRowSets(hash_table, SearchWordCounts)
    ELSE IF search_pc = "any_position"
         THEN {AnyPositionRows(hash_table, hash_id_list, SearchWordCounts)}
         ELSE {ExactPhraseRows(hash_table, hash_id_list, SearchWordCounts)}

\* C16: the table of a single-word, any-position or exact-phrase search is
\* in descending order of the frequency; limit 0 returns every surviving
\* row, a limit n > 0 min(n, surviving rows) rows, none of the rows left out
\* having a higher frequency than a returned one; the result is None
\* exactly when no row survives.
C16_OrderAndLimit ==
    search_pc \in {"single_word", "any_position", "exact_phrase",
                   "core_single_word"} =>
        LET rows == result_table.rows
            surviving == Cardinality(SurvivingTexts)
        IN  /\ \A i, j \in DOMAIN rows :
                   i < j => rows[i].matching_words_frequency
                                >= rows[j].matching_words_frequency
            /\ results_number = 0 => Len(rows) = surviving
            /\ results_number > 0 =>
                   /\ Len(rows) = IF results_number < surviving
                                  THEN results_number ELSE surviving
                   /\ \E all \in SurvivingRowSets :
                          /\ Range(rows) \subseteq all
                          /\ \A o \in all \ Range(rows) : \A r \in Range(rows) :
                                 o.matching_words_frequency
                                     <= r.matching_words_frequency
            /\ result_table.none <=> surviving = 0

\* C19: every table a searcher returns has the columns text_id,
\* matching_words, words_total and term_frequency, and twiga_text_reader
\* reads it without failing on a column.
C19_SearcherTableFitsTextReader ==
    /\ (search_pc \in Searchers /\ ~result_table.none) =>
           \A i \in DOMAIN result_table.rows :
               DOMAIN result_table.rows[i] =
                   {"text_id", "matching_words", "words_total", "term_frequency"}
    /\ search_pc = "text_read" => text_reader_result.status = "returned"

(***************************************************************************)
(* Properties of batches.                                                  *)
(***************************************************************************)
\* The postings <<shard, hash, text_id, positions>> of the index.
PostingsOfIndex ==
    UNION {{<<k, hd.hash, row.text_id, row.positions>> :
               <<hd, row>> \in {x \in hash_dict[k] \X BagToSet(hash_index[k]) :
                                   x[1].hash_id = x[2].hash_id}} :
              k \in Bins}

\* The postings of the texts ids, from their words.
PostingsOfTexts(ids) ==
    UNION {{<<(HexToInt(blake2b(FilteredTokens(d)[i], 32)) % IndexBins) + 1,
              blake2b(FilteredTokens(d)[i], 32),
              d,
              SortedSeq({j - 1 : j \in {n \in DOMAIN FilteredTokens(d) :
                            FilteredTokens(d)[n] = FilteredTokens(d)[i]}})>> :
               i \in DOMAIN FilteredTokens(d)} : d \in ids}

\* Every writer call so far has returned.
AllBatchesReturned ==
    writer_pc = "idle" /\ \A i \in DOMAIN outcomes : outcomes[i] = "returned"

\* C17: after batches with disjoint text ids, the postings compared as
\* (shard, hash, text_id, positions), the hashes of every shard's dictionary
\* and the word_counts rows are those of the set of indexed texts, whatever
\* the order the batches were written in.
C17_BatchOrderIndependent ==
    AllBatchesReturned =>
        /\ PostingsOfIndex = PostingsOfTexts(IndexedTextIds)
        /\ \A k \in Bins :
               {hd.hash : hd \in hash_dict[k]} =
                   {x[2] : x \in {y \in PostingsOfTexts(IndexedTextIds) : y[1] = k}}
        /\ word_counts = {[text_id |-> d, words_total |-> Len(FilteredTokens(d))] :
                             d \in IndexedTextIds}

\* Text 2 was written before text 1, in a batch of its own, and the two
\* texts share a word.
C17_Witness ==
    /\ AllBatchesReturned
    /\ batches_done = 2
    /\ text_id_list = <<1>>
    /\ IndexedTextIds = {1, 2}
    /\ Range(FilteredTokens(1)) \cap Range(FilteredTokens(2)) # {}
    /\ Range(FilteredTokens(1)) # Range(FilteredTokens(2))

TextRowsOfBin(table, bin_number) ==
    {r \in Range(table) : (r.text_id % TextBins) + 1 = bin_number}

C20_Step ==
    IF text_writes' # text_writes /\ text_writer_result'.status = "returned"
    THEN \A k \in TextStoreBins :
             /\ texts_bin'[k] = texts_bin[k] \cup TextRowsOfBin(batch_table, k)
             /\ texts_bin[k] \cap TextRowsOfBin(batch_table, k) = {}
    ELSE texts_bin' = texts_bin

\* C20: the committed rows of the text shards change only when a
\* twiga_text_writer call returns, and then by all rows of its batch at
\* once, each in the one table texts_bin_k with k = (text_id mod M) + 1; a
\* call that fails commits no row in any shard.
C20_TextBatchAllOrNothing == [][C20_Step]_vars

\* A batch for two shards has been committed, and a later call has failed
\* after its insert into one shard.
C20_Witness ==
    /\ \A k \in TextStoreBins : texts_bin[k] # {}
    /\ text_writer_result.status = "Exception"
    /\ \E k \in TextStoreBins : text_tx[k] # {}

(***************************************************************************)
(* Properties of the text reader.                                          *)
(***************************************************************************)
\* The text ids of text_id_table that have a row in the text store.
MatchedTextIds ==
    {tit.text_id : tit \in Range(result_table.rows)} \cap
        UNION {{tt.text_id : tt \in texts_bin[k]} : k \in TextStoreBins}

\* C21: twiga_text_reader returns None when no text id of text_id_table has
\* a row in the text store; otherwise it returns the matched texts, each
\* read from the table of bin (text_id mod M) + 1 and joined with its
\* matching_words, words_total and term_frequency, in descending order of
\* term_frequency.
C21_TextReaderReturnsMatchedTexts ==
    search_pc = "text_read" =>
        IF MatchedTextIds = {}
        THEN text_reader_result.status = "None"
        ELSE /\ text_reader_result.status = "returned"
             /\ {r.text_id : r \in Range(text_reader_result.value)} = MatchedTextIds
             /\ \A r \in Range(text_reader_result.value) :
                    /\ [text_id |-> r.text_id, text |-> r.text]
                           \in texts_bin[TextBinNumber(r.text_id, TextBins)]
                    /\ \E tit \in Range(result_table.rows) :
                           /\ tit.text_id = r.text_id
                           /\ tit.matching_words = r.matching_words
                           /\ tit.words_total = r.total_words
                           /\ tit.term_frequency = r.term_frequency
             /\ \A i, j \in DOMAIN text_reader_result.value :
                    i < j => text_reader_result.value[i].term_frequency
                                 >= text_reader_result.value[j].term_frequency

(***************************************************************************)
(* Properties of the hasher batches.                                       *)
(***************************************************************************)
\* The words of hasher batch b.
BatchWords(b) ==
    SumSeq([i \in DOMAIN hasher_batches[b][2] |-> Len(hasher_batches[b][2][i])])

\* C25: the hasher batches are consecutive runs of the texts in input
\* order, every text is in exactly one batch with its own word list, and a
\* batch has at most hasher_batch_maximum words unless it is a single text.
C25_HasherBatchesAreConsecutiveRuns ==
    hasher_batches # <<>> =>
        /\ Concat([b \in DOMAIN hasher_batches |-> hasher_batches[b][1]])
               = hasher_arguments[1]
        /\ Concat([b \in DOMAIN hasher_batches |-> hasher_batches[b][2]])
               = hasher_arguments[2]
        /\ \A b \in DOMAIN hasher_batches :
               /\ Len(hasher_batches[b][1]) = Len(hasher_batches[b][2])
               /\ \/ BatchWords(b) <= hasher_batch_maximum
                  \/ Len(hasher_batches[b][1]) = 1

\* A batch of two texts is followed by a batch of one text that alone has
\* more words than hasher_batch_maximum.
C25_Witness ==
    /\ Len(hasher_batches) = 2
    /\ Len(hasher_batches[1][1]) = 2
    /\ Len(hasher_batches[2][1]) = 1
    /\ BatchWords(2) > hasher_batch_maximum

(***************************************************************************)
(* Properties of the index optimizer.                                      *)
(***************************************************************************)
\* Every table index.bin_k has, as committed, the rows the optimizer found
\* in it, each as often as it found it.
RowsPreserved ==
    \A k \in Bins :
        /\ bin_tables[k].exists = input_tables[k].exists
        /\ SeqToBag(bin_tables[k].rows) = SeqToBag(input_tables[k].rows)

\* The optimizer has written no row of a dictionary table.
DictionariesUntouched == hash_dict = [k \in Bins |-> {}]

\* C26 as stated: the rows of every shard are preserved as a multiset, the
\* hash dictionaries are unchanged, and the copy to the temporary table is
\* made inside the transaction that deletes and re-inserts the rows.
C26_ReorderCopiesInsideTransaction ==
    /\ RowsPreserved
    /\ DictionariesUntouched
    /\ optimizer_pc \in {"insert", "commit"} => cursor_table.open
    /\ temp_reorder.exists => cursor_table.open

\* C26, amended: the rows of every shard are preserved as a multiset in
\* every committed state, the hash dictionaries are unchanged, the DELETE
\* and the re-insert run inside one transaction, and the copy to the
\* temporary table is complete before that transaction begins.
C26_ReorderPreservesRows ==
    /\ RowsPreserved
    /\ DictionariesUntouched
    /\ optimizer_pc \in {"insert", "commit"} <=> cursor_table.open
    /\ cursor_table.open => temp_reorder.exists
    /\ optimizer_pc = "commit" =>
           SeqToBag(cursor_table.rows) = SeqToBag(input_tables[idx].rows)

\* One table has been rewritten in another storage order, and the
\* reordering of a table that exists has failed part-way.
C26_Witness ==
    /\ \E k \in Bins : bin_tables[k].rows # input_tables[k].rows
    /\ \E i \in DOMAIN tables_processed :
          /\ tables_processed[i].status = "failed"
          /\ input_tables[tables_processed[i].name].exists

\* The loop has an entry for every table before the current one, in order;
\* reorder_bin_table starts on every table as it starts on the first, with
\* no temporary table and no open transaction left by an earlier failure,
\* and can copy every table that exists; a table recorded as failed is as
\* it was found; line 175 is reached after the last table only.
OptimizerLoopInvariant ==
    /\ Len(tables_processed) = idx - 1
    /\ \A i \in DOMAIN tables_processed : tables_processed[i].name = i
    /\ optimizer_pc = "reorder" =>
           /\ ~temp_reorder.exists
           /\ ~cursor_table.open
           /\ bin_tables[idx].exists => ENABLED OptimizerCopy
    /\ \A i \in DOMAIN tables_processed :
           tables_processed[i].status = "failed" =>
               bin_tables[i] = input_tables[i]
    /\ optimizer_pc \in {"checkpoint", "done"} <=> idx = IndexBins + 1

\* C27: a failure of reorder_bin_table for a table is recorded, the loop
\* goes on with every later table in order, no later table fails because
\* of it, and the final CHECKPOINT is reached in every run.
C27_OptimizerContinuesAfterFailure ==
    []OptimizerLoopInvariant /\ <>(optimizer_pc = "done")

\* The reordering of the first table failed part-way, the second table was
\* reordered, and the CHECKPOINT has run.
C27_Witness ==
    /\ optimizer_pc = "done"
    /\ input_tables[1].exists
    /\ tables_processed[1].status = "failed"
    /\ tables_processed[2].status = "success"


(***************************************************************************)
(* Properties of the shard transactions of one writer call.                *)
(***************************************************************************)
\* Thread t has an open transaction on its current bin.
InTransaction(t) ==
    task[t].pc \in {"nextval", "insert_dict", "insert_index", "commit"}

\* C22: the step in which a shard's transaction fails commits nothing; the
\* rows of the failed shard stay as they were for the rest of the call;
\* committed rows of any shard are never taken back; and a call with a
\* failed shard ends with the exception, not with a return value.
C22_FailedShardCommitsNothing ==
    [][/\ \A t \in Threads :
             /\ (task[t].pc # "failed" /\ task'[t].pc = "failed") =>
                    (hash_dict' = hash_dict /\ hash_index' = hash_index)
             /\ (task[t].pc = "failed" /\ task'[t].pc = "failed") =>
                    /\ hash_dict'[CurrentBin(t)] = hash_dict[CurrentBin(t)]
                    /\ hash_index'[CurrentBin(t)] = hash_index[CurrentBin(t)]
       /\ \A k \in Bins :
             /\ hash_dict[k] \subseteq hash_dict'[k]
             /\ hash_index[k] \sqsubseteq hash_index'[k]
       /\ (writer_pc = "writing" /\ writer_pc' = "idle"
              /\ \E t \in Threads : task[t].pc = "failed") =>
             writer_result'.status = "Exception"]_vars

\* A call has ended with the exception of a shard whose transaction had
\* inserted dictionary rows, while another shard of the call is committed.
C22_Witness ==
    /\ writer_pc = "idle"
    /\ writer_result.status = "Exception"
    /\ \E t \in Threads :
          /\ task[t].pc = "failed"
          /\ task[t].new_hashes # {}
          /\ hash_dict[CurrentBin(t)] = {}
    /\ \E k \in Bins : hash_index[k] # EmptyBag

\* C23: the shard sets handed to the tasks of a call are pairwise disjoint,
\* together they are the shards that have postings in the batch, each
\* task works through its own set in order, and no two tasks have an open
\* transaction on the same shard.
C23_ShardSetsDisjoint ==
    writer_pc = "writing" =>
        LET handed == twiga_dict_splitter(hashes, CpuCount)
        IN  /\ \A t, u \in Threads :
                   t # u => Range(handed[t]) \cap Range(handed[u]) = {}
            /\ UNION {Range(handed[t]) : t \in Threads} =
                   {x[1] : x \in PostingsOfTexts(Range(text_id_list))}
            /\ \A t \in Threads :
                   \E n \in 0..Len(handed[t]) :
                       task[t].bins = SubSeq(handed[t], n + 1, Len(handed[t]))
            /\ \A t, u \in Threads :
                   (t # u /\ InTransaction(t) /\ InTransaction(u)) =>
                       CurrentBin(t) # CurrentBin(u)

\* Two tasks have an open transaction at once.
C23_Witness ==
    /\ writer_pc = "writing"
    /\ \E t, u \in Threads :
          /\ t # u
          /\ task[t].pc = "insert_index"
          /\ task[u].pc = "insert_index"

\* The one writer call made so far has returned.
OneBatchReturned == writer_pc = "idle" /\ outcomes = <<"returned">>

\* The hash ids of the committed dictionaries.
DictHashIds == UNION {{hd.hash_id : hd \in hash_dict[k]} : k \in Bins}

\* C24: however the shard tasks of one batch interleave, the call ends
\* with the same index: the postings as (shard, hash, text_id, positions)
\* and the hashes of each dictionary are those of the batch's texts, and
\* the hash ids are the first values of the sequence, one per hash.
C24_TaskInterleavingIndependent ==
    OneBatchReturned =>
        /\ PostingsOfIndex = PostingsOfTexts(Range(text_id_list))
        /\ \A k \in Bins :
               {hd.hash : hd \in hash_dict[k]} =
                   {x[2] : x \in {y \in PostingsOfTexts(Range(text_id_list)) :
                                     y[1] = k}}
        /\ DictHashIds = 1..(hash_id_sequence - 1)
        /\ \A k \in Bins :
               Cardinality({hd.hash_id : hd \in hash_dict[k]}) =
                   Cardinality(hash_dict[k])

\* The task of the second shard drew its hash ids before the task of the
\* first shard did.
C24_Witness ==
    /\ OneBatchReturned
    /\ hash_dict[1] # {}
    /\ \E hd \in hash_dict[2] : hd.hash_id = 1

\* C28: every text_id of a committed posting has a word_counts row, and
\* while the shard tasks of a call run, the word_counts rows of all its
\* texts are committed.
C28_PostingsHaveWordCounts ==
    /\ \A k \in Bins :
           \A row \in BagToSet(hash_index[k]) : row.text_id \in IndexedTextIds
    /\ writer_pc = "writing" => Range(text_id_list) \subseteq IndexedTextIds

\* A call has failed: a text of it has its word_counts row and words, but
\* no posting, while another text has postings.
C28_Witness ==
    /\ writer_pc = "idle"
    /\ writer_result.status = "Exception"
    /\ \E d \in IndexedTextIds :
          /\ FilteredTokens(d) # <<>>
          /\ \A k \in Bins :
                 \A row \in BagToSet(hash_index[k]) : row.text_id # d
    /\ \E k \in Bins : hash_index[k] # EmptyBag

\* C29: no writer call depends on a name from outside the function, and a
\* call that returns gives the number of documents and of non-stopword
\* tokens of its batch.
C29_WriterUsesBinsTotalArgument ==
    /\ \A i \in DOMAIN outcomes : outcomes[i] # "NameError"
    /\ BatchReturned =>
           writer_result.value =
               << Len(text_id_list),
                  SumSeq([i \in DOMAIN text_id_list |->
                             Len(FilteredTokens(text_id_list[i]))]) >>


(***************************************************************************)
(* Properties of the exact-phrase comparison.                              *)
(***************************************************************************)
\* C30: the comparison of the concatenated hash ids is exact, so every text
\* the exact-phrase searcher returns has the words of the request next to
\* each other and in the request's order, also for a request of more than
\* ten distinct words.
C30_ExactPhraseComparisonIsExact ==
    search_pc = "exact_phrase" =>
        \A n \in DOMAIN result_table.rows :
            LET text == search_texts[result_table.rows[n].text_id]
            IN  \E start \in 0..(Len(text) - Len(search_request)) :
                    \A k \in DOMAIN search_request :
                        text[start + k] = search_request[k]

====
